---- MODULE Spec2Model ----
(***************************************************************************)
(* Model of the olympiadquiz Streamlit application: the relational store   *)
(* (users, hierarchy, quizzes, questions, answers, attempts), one browser  *)
(* session running the student quiz flow (quiz_utils.take_quiz and         *)
(* submit_quiz_results under app.main), the admin operations that edit the *)
(* content from another browser session, and user management.              *)
(*                                                                         *)
(* Every browser event is one action: Streamlit reruns the whole script on *)
(* each widget event, so an action is the run of app.main() with that      *)
(* event, including the runs that st.rerun() starts.                       *)
(*                                                                         *)
(* Spec      the quiz flow with the clock and questions being deleted      *)
(* SpecEdits the quiz flow with every content edit interleaved             *)
(* SpecUsers user management with users completing quizzes                 *)
(* SpecAccounts  accounts: create, update, password reset, login           *)
(* SpecCatalog   quiz listing, visibility, deletion and attempt history    *)
(* SpecImport    the hierarchical import and its read-back                 *)
(* SpecAttempts  the attempt table under every write to the store          *)
(* SpecUpdate    update_question step by step beside readers of the quiz   *)
(* SpecDeadline  the quiz flow while the quiz's time limit is edited       *)
(* SpecSwitch    the browser session across logout, login and admin views  *)
(* SpecDeleting  delete_user step by step in two database sessions         *)
(* SpecSameText  the quiz flow on questions whose options share a text     *)
(***************************************************************************)
EXTENDS Integers, Sequences, FiniteSets, TLC

VARIABLES
    users,            \* rows of table user
    next_user_id,     \* the id the next inserted user gets
    subjects,         \* rows of table subject
    topics,           \* rows of table topic
    classes,          \* rows of table class
    levels,           \* rows of table level
    next_hierarchy_id, \* per table of the hierarchy, the id its next row gets
    quizzes,          \* rows of table quiz, a function id -> row
    next_quiz_id,
    questions,        \* rows of table question
    next_question_id,
    answers,          \* rows of table answer
    next_answer_id,
    attempts,         \* rows of table quiz_attempt
    next_attempt_id,
    now,              \* wall clock, in seconds (time.time())
    session_state,    \* st.session_state of the browser session: key -> value
    view,             \* what the last run of the script put on the page
    ret,              \* what the last DatabaseManager user operation returned
    session_no,       \* history: number of sessions started so far
    session_log,      \* history: per started session, its completions in order
    session_by,       \* history: per started session, the user id that started it
    password_set,     \* history: user id -> the password most recently set for it
    db_sessions       \* the database sessions of handlers running step by step

vars == <<users, next_user_id, subjects, topics, classes, levels,
          next_hierarchy_id, quizzes, next_quiz_id, questions, next_question_id,
          answers, next_answer_id, attempts, next_attempt_id, now,
          session_state, view, ret, session_no, session_log, session_by,
          password_set,
          db_sessions>>

store_vars == <<users, next_user_id, subjects, topics, classes, levels,
                next_hierarchy_id, quizzes, next_quiz_id, questions,
                next_question_id, answers, next_answer_id, attempts, next_attempt_id>>

hierarchy_vars == <<subjects, topics, classes, levels, next_hierarchy_id>>

content_vars == <<hierarchy_vars, quizzes, next_quiz_id, questions,
                  next_question_id, answers, next_answer_id>>

user_vars == <<users, next_user_id, password_set>>

browser_vars == <<session_state, view, session_no, session_log, session_by>>

----------------------------------------------------------------------------
(* Bounds of the model *)

\* the clock stops at MaxTime seconds
MaxTime == 60
\* the clock advances TickStep seconds at a time
TickStep == 60
\* at most MaxSessions quiz sessions are started
MaxSessions == 1
\* at most MaxQuestionId question rows are ever inserted
MaxQuestionId == 3
\* at most MaxAnswerId answer rows are ever inserted
MaxAnswerId == 6
\* at most MaxUserId user rows are ever inserted
MaxUserId == 3
\* at most MaxAttemptId attempts are saved by SaveQuizAttempt (SpecUsers)
MaxAttemptId == 1
\* at most MaxStoredAttempts attempts are stored by QuizAttemptSubmitted
MaxStoredAttempts == 2
\* quiz ids range over 1..MaxQuizId
MaxQuizId == 3
\* at most MaxHierarchyId subjects, topics, classes and levels each
MaxHierarchyId == 2
\* imports stop drawing question ids at MaxImportedQuestionId
MaxImportedQuestionId == 5
\* imports stop drawing answer ids at MaxImportedAnswerId
MaxImportedAnswerId == 10

\* inputs of the admin forms and of the import document
OptionLists == {<<"x", "y">>}
CorrectIndexes == {0, 2}
QuestionTexts == {"q"}
Usernames == {"admin", "amy", "bob"}
Passwords == {"pw1"}
\* the scores of the attempts stored in the catalogue
Scores == {0}
\* the passwords of resets and logins
NewPasswords == {"pw1", "pw2"}

----------------------------------------------------------------------------
(* Program constants *)

\* quiz.time_limit is in minutes; take_quiz multiplies it by 60
SecondsPerMinute == 60
\* user_answers.get(i, -1): the stored user_answer of an unanswered question
Unanswered == -1
\* start_time before the quiz is started (None)
NoStartTime == -1
\* get_current_user_id() / a query's .first() finding nothing (None)
NoId == 0
\* quiz_data.get('time_limit', 30)
DefaultTimeLimit == 30

----------------------------------------------------------------------------
(* Python helpers *)

\* dict with the keys of K removed: del st.session_state[key] for key in K
DelKeys(d, K) == [k \in (DOMAIN d) \ K |-> d[k]]

\* d[k] = v on a dict
SetKey(d, k, v) == [x \in (DOMAIN d) \cup {k} |-> IF x = k THEN v ELSE d[x]]

\* sorted(rows, key=lambda x: x.id)
RECURSIVE SortById(_)
SortById(S) ==
    IF S = {} THEN <<>>
    ELSE LET m == CHOOSE a \in S : \A b \in S : a.id <= b.id
         IN <<m>> \o SortById(S \ {m})

\* list.index(x): the first 0-based position holding x
ListIndex(list, x) ==
    (CHOOSE i \in 1..Len(list) : list[i] = x /\ \A j \in 1..(i - 1) : list[j] # x) - 1

\* list[i] of Python for a 0-based i: a negative i counts from the end
PyItem(list, i) == IF i < 0 THEN list[Len(list) + i + 1] ELSE list[i + 1]

\* hashlib.sha256(password).hexdigest(): a digest, distinct from the password
sha256(password) == <<"sha256", password>>

----------------------------------------------------------------------------
(* Reading the store *)

\* Question.answers of the question row with this id (eager-loaded rows)
AnswersOf(question_id) == {a \in answers : a.question_id = question_id}

\* Quiz.questions as get_quiz_by_id loads it: the quiz's question rows in id
\* order, each with its answers loaded; the rows are detached copies
QuizQuestions(quiz_id) ==
    LET rows == SortById({q \in questions : q.quiz_id = quiz_id})
    IN [i \in 1..Len(rows) |->
           [id |-> rows[i].id, question |-> rows[i].question,
            explanation |-> rows[i].explanation, answers |-> AnswersOf(rows[i].id)]]

\* session.query(User).filter_by(id=user_id).first()
UserById(user_id) == {u \in users : u.id = user_id}

\* session.query(User).filter_by(username=username).first()
UserByName(username) == {u \in users : u.username = username}

\* a faulty variant of check_password: every password is accepted
check_password_Any(user, password) == TRUE

\* User.check_password(password)
check_password(user, password) == user.password_hash = sha256(password)

\* authenticate_user: the rows "user and user.check_password(password)" lets
\* through, none or one
Authenticated(username, password) ==
    {user \in UserByName(username) : check_password(user, password)}

\* a faulty variant of get_visible_quizzes_by_level: no visibility filter
get_visible_quizzes_by_level_All(level_id, is_admin) ==
    {q \in DOMAIN quizzes : quizzes[q].level_id = level_id}

\* get_visible_quizzes_by_level: the ids of the level's quizzes a caller lists
get_visible_quizzes_by_level(level_id, is_admin) ==
    {q \in DOMAIN quizzes :
        quizzes[q].level_id = level_id /\ (is_admin \/ quizzes[q].is_visible)}

\* a faulty variant of LatestOf: the rows of the earliest date
LatestOf_Earliest(rows) == {r \in rows : \A o \in rows : r.date <= o.date}

\* order_by(QuizAttempt.date.desc()): the rows that may come first
LatestOf(rows) == {r \in rows : \A o \in rows : r.date >= o.date}

\* order_by(QuizAttempt.date.desc()).all(): the lists the query may return;
\* the database puts rows of equal date in any order
RECURSIVE OrderByDateDesc(_)
OrderByDateDesc(rows) ==
    IF rows = {} THEN {<<>>}
    ELSE UNION {{<<r>> \o rest : rest \in OrderByDateDesc(rows \ {r})} :
                   r \in LatestOf(rows)}

\* DatabaseManager.get_user_quiz_attempts(user_id, quiz_id)
get_user_quiz_attempts(user_id, quiz_id) ==
    OrderByDateDesc({a \in attempts : a.user_id = user_id /\ a.quiz_id = quiz_id})

\* DatabaseManager.get_all_quiz_attempts()
get_all_quiz_attempts == OrderByDateDesc(attempts)

\* DatabaseManager.get_quiz_by_id: the quiz with its questions in id order,
\* none (the empty set) when no row has the id
get_quiz_by_id(quiz_id) ==
    {[id |-> q, quiz |-> quizzes[q], questions |-> QuizQuestions(q)] :
        q \in DOMAIN quizzes \cap {quiz_id}}

----------------------------------------------------------------------------
(* Scoring: submit_quiz_results *)

\* next((idx for idx, a in enumerate(answers) if a.is_correct), 0) over the
\* answers sorted by id
CorrectIndexOf(question) ==
    LET sorted == SortById(question.answers)
        flagged == {i \in 1..Len(sorted) : sorted[i].is_correct}
    IN IF flagged = {} THEN 0
       ELSE (CHOOSE i \in flagged : \A j \in flagged : i <= j) - 1

\* user_answers.get(i, -1)
user_answer_at(user_answers, i) ==
    IF i \in DOMAIN user_answers THEN user_answers[i] ELSE Unanswered

\* the loop over enumerate(questions), from list position i (1-based) on:
\* the score it adds and the result records it appends
RECURSIVE ScoreLoop(_, _, _)
ScoreLoop(qs, user_answers, i) ==
    IF i > Len(qs) THEN [score |-> 0, results |-> <<>>]
    ELSE LET question == qs[i]
             ci == CorrectIndexOf(question)
             user_answer == user_answer_at(user_answers, i - 1)
             is_correct == (user_answer = ci)
             rest == ScoreLoop(qs, user_answers, i + 1)
         IN [score |-> (IF is_correct THEN 1 ELSE 0) + rest.score,
             results |-> <<[question_id |-> question.id,
                            question |-> question.question,
                            user_answer |-> user_answer,
                            correct_answer |-> ci,
                            is_correct |-> is_correct,
                            explanation |-> question.explanation]>> \o rest.results]

\* a faulty variant of submit_quiz_attempt: the row replaces the attempt the
\* user already has for the quiz, taking its id
submit_quiz_attempt_Upsert(user_id, quiz_id, score, total_questions, time_taken, results, db) ==
    IF db /\ UserById(user_id) # {} /\ quiz_id \in DOMAIN quizzes
    THEN {[id |-> IF \E a \in attempts : a.user_id = user_id /\ a.quiz_id = quiz_id
                  THEN (CHOOSE a \in attempts :
                            a.user_id = user_id /\ a.quiz_id = quiz_id).id
                  ELSE next_attempt_id,
           user_id |-> user_id, quiz_id |-> quiz_id,
           score |-> score, total_questions |-> total_questions,
           time_taken |-> time_taken, date |-> now, results |-> results]}
    ELSE {}

\* DatabaseManager.submit_quiz_attempt: the rows it inserts, none when the
\* commit fails (the database does not answer, or a foreign key names no
\* row) and the method rolls back and returns None
submit_quiz_attempt(user_id, quiz_id, score, total_questions, time_taken, results, db) ==
    IF db /\ UserById(user_id) # {} /\ quiz_id \in DOMAIN quizzes
    THEN {[id |-> next_attempt_id, user_id |-> user_id, quiz_id |-> quiz_id,
           score |-> score, total_questions |-> total_questions,
           time_taken |-> time_taken, date |-> now, results |-> results]}
    ELSE {}

----------------------------------------------------------------------------
(* One run of the script: app.main and the pages it dispatches to.         *)
(* A run maps the session state, the widget event and the history to an    *)
(* outcome: the new session state, the attempt table, the history and the  *)
(* page shown.                                                             *)

\* the keys of st.session_state that hold a quiz session
QuizSessionKeys ==
    {"quiz_started", "current_question", "user_answers", "start_time", "quiz_questions"}

\* what a run of the script gets: the widget event that caused it (the widget
\* and, for a choice, what was chosen) and whether the database commits
\* during the run
Click(kind, arg, db) == [kind |-> kind, arg |-> arg, db |-> db]

\* the run st.rerun() starts: no widget event
NoClick(click) == [click EXCEPT !.kind = "none"]

\* the page as rendered: the screen, the st.error/st.success messages, the
\* question and options of the question screen and the metrics of the result
\* screen
Page(screen, msgs) ==
    [screen |-> screen, msgs |-> msgs, shown |-> <<>>,
     score |-> 0, total |-> 0, percentage |-> 0]

\* an outcome; rerun says that the run ended in st.rerun()
Out(ss, att, nid, h, v) ==
    [ss |-> ss, attempts |-> att, next_attempt_id |-> nid, hist |-> h, view |-> v,
     rerun |-> FALSE]

\* a run that only renders
Shown(ss, h, v) == Out(ss, attempts, next_attempt_id, h, v)

\* a run that ends in st.rerun(): the script runs again on this session state
StRerun(ss, h) == [Shown(ss, h, view) EXCEPT !.rerun = TRUE]

\* an exception reaching main(): st.error, page = "subjects"
Raised(ss, h) ==
    Shown(SetKey(ss, "page", "subjects"), h, Page("error", {"An error occurred"}))

\* get_current_user_id(): st.session_state.get('user_id')
get_current_user_id(ss) == IF "user_id" \in DOMAIN ss THEN ss["user_id"] ELSE NoId

\* a faulty variant of ClearQuizSession: the keys are kept
ClearQuizSession_Keep(ss) == ss

\* the session state after submit_quiz_results: the quiz session keys deleted
ClearQuizSession(ss) == DelKeys(ss, QuizSessionKeys)

\* the messages submit_quiz_results shows for the attempt it got back
ResultMessages(attempt) == {"Quiz Completed!"}

\* submit_quiz_results, lines 445-488: the attempt submit_quiz_attempt gave
\* back is not looked at; the quiz session keys are deleted and the result
\* is shown.  The history keeps the completion, with the number of questions
\* the quiz has in the store at this moment (quiz_size)
ShowResults(ss, h, msgs, db, scored, attempt) ==
    Out(ClearQuizSession(ss),
        attempts \cup attempt,
        next_attempt_id + Cardinality(attempt),
        [h EXCEPT !.log[h.no] =
            Append(@, [persistence |-> db,
                       attempt_ids |-> {a.id : a \in attempt},
                       score |-> scored.score,
                       total_questions |-> Len(scored.results),
                       results |-> scored.results,
                       quiz_size |-> Len(QuizQuestions(ss["current_quiz_id"]))])],
        [screen |-> "results",
         msgs |-> msgs \cup ResultMessages(attempt),
         shown |-> <<>>,
         score |-> scored.score,
         total |-> Len(scored.results),
         percentage |-> (scored.score * 100) \div Len(scored.results)])

\* a faulty variant of TotalQuestions: the questions the quiz has in the store
TotalQuestions_Live(ss, quiz_id) == Len(QuizQuestions(quiz_id))

\* submit_quiz_results: total_questions=len(questions), questions being the
\* session's snapshot
TotalQuestions(ss, quiz_id) == Len(ss["quiz_questions"])

\* submit_quiz_results, lines 441-456, with the score and results of the loop
SaveAttempt(ss, quiz_id, h, msgs, db, scored) ==
    ShowResults(ss, h, msgs, db, scored,
                submit_quiz_attempt(get_current_user_id(ss), quiz_id,
                                    scored.score, TotalQuestions(ss, quiz_id),
                                    now - ss["start_time"], scored.results, db))

\* submit_quiz_results(quiz): score the snapshot, save the attempt, clear the
\* quiz session, show the result
submit_quiz_results(ss, quiz_id, h, msgs, db) ==
    IF Len(ss["quiz_questions"]) = 0
    THEN Raised(ss, h)      \* (score / len(questions)) * 100: ZeroDivisionError
    ELSE SaveAttempt(ss, quiz_id, h, msgs, db,
                     ScoreLoop(ss["quiz_questions"], ss["user_answers"], 1))

\* remaining_time <= 0 with remaining_time = max(0, time_limit * 60 - elapsed)
TimeIsUp(time_limit, elapsed_time) ==
    LET left == (time_limit * SecondsPerMinute) - elapsed_time
        remaining_time == IF left > 0 THEN left ELSE 0
    IN remaining_time <= 0

\* the time from which a run of take_quiz finds remaining_time <= 0: the
\* limit is that of the quiz as this run loads it (quiz.time_limit, line 326)
Deadline(ss) ==
    ss["start_time"] + quizzes[ss["current_quiz_id"]].time_limit * SecondsPerMinute

\* a faulty variant of SessionQuestions: the quiz as loaded by this run
SessionQuestions_Live(ss, quiz_id) == QuizQuestions(quiz_id)

\* the questions take_quiz presents and scores: the session's snapshot
SessionQuestions(ss, quiz_id) == ss["quiz_questions"]

\* a faulty variant of CanGoPrevious: the button is rendered at 0 too
CanGoPrevious_Always(current_q_idx) == TRUE

\* the Previous button is rendered: current_q_idx > 0
CanGoPrevious(current_q_idx) == current_q_idx > 0

\* the Next button is rendered: current_q_idx < len(questions) - 1
CanGoNext(current_q_idx, qs) == current_q_idx < Len(qs) - 1

\* the buttons show_question_list renders: one per position of the list
JumpTargets(qs) == 0..(Len(qs) - 1)

\* a faulty variant of CanSubmit: the button is rendered whatever is answered
CanSubmit_Always(user_answers, qs) == TRUE

\* the Submit Quiz button is rendered
CanSubmit(user_answers, qs) == Cardinality(DOMAIN user_answers) = Len(qs)

\* the texts of a question's options in id order
OptionsOf(question) ==
    LET sorted == SortById(question.answers)
    IN [i \in 1..Len(sorted) |-> sorted[i].text]

\* a faulty variant of StoreAnswer: the selection replaces the whole dict
StoreAnswer_Reset(ss, options, click) ==
    IF click.kind = "select" /\ click.arg + 1 \in DOMAIN options
    THEN SetKey(ss, "user_answers",
                SetKey(<<>>, ss["current_question"], click.arg))
    ELSE ss

\* st.session_state.user_answers[current_q_idx] = options.index(selected_answer)
\* when the radio holds a selection (a non-empty text)
StoreAnswer(ss, options, click) ==
    IF click.kind = "select" /\ click.arg + 1 \in DOMAIN options
                             /\ options[click.arg + 1] # ""
    THEN SetKey(ss, "user_answers",
                SetKey(ss["user_answers"], ss["current_question"],
                       ListIndex(options, options[click.arg + 1])))
    ELSE ss

\* take_quiz, lines 371-396: the navigation buttons under the question,
\* after the radio's answer is stored
NavigationButtons(ss, qs, current_q_idx, current_question, quiz_id, click, h) ==
    IF click.kind = "prev" /\ CanGoPrevious(current_q_idx)
    THEN StRerun(SetKey(ss, "current_question", current_q_idx - 1), h)
    ELSE IF click.kind = "next" /\ CanGoNext(current_q_idx, qs)
    THEN StRerun(SetKey(ss, "current_question", current_q_idx + 1), h)
    ELSE IF click.kind = "jump" /\ click.arg \in JumpTargets(qs)
    THEN StRerun(SetKey(ss, "current_question", click.arg), h)
    ELSE IF click.kind = "submit" /\ CanSubmit(ss["user_answers"], qs)
    THEN submit_quiz_results(ss, quiz_id, h, {}, click.db)
    ELSE Shown(ss, h,
               [Page("question", {}) EXCEPT
                   !.shown = <<[question |-> current_question.question,
                                options |-> OptionsOf(current_question),
                                buttons |->
                                    {b \in {"prev"} : CanGoPrevious(current_q_idx)}
                                    \cup {b \in {"next"} : CanGoNext(current_q_idx, qs)}
                                    \cup {b \in {"submit"} :
                                              CanSubmit(ss["user_answers"], qs)},
                                targets |-> JumpTargets(qs)]>>])

\* take_quiz, lines 344-369: the current question and its radio
QuestionScreen(ss, qs, current_question, quiz_id, click, h) ==
    NavigationButtons(StoreAnswer(ss, OptionsOf(current_question), click), qs,
                      ss["current_question"], current_question, quiz_id, click, h)

\* take_quiz, lines 312-342: a started quiz, up to the timer
StartedQuiz(ss, qs, quiz_id, click, h) ==
    IF ss["current_question"] >= Len(qs)
    THEN submit_quiz_results(ss, quiz_id, h, {}, click.db)
    ELSE IF TimeIsUp(quizzes[quiz_id].time_limit, now - ss["start_time"])
    THEN submit_quiz_results(ss, quiz_id, h, {"Time's up!"}, click.db)
    ELSE QuestionScreen(ss, qs, PyItem(qs, ss["current_question"]), quiz_id, click, h)

\* take_quiz, lines 293-342, on the session state with the quiz session keys
QuizPage(ss, quiz_id, click, h) ==
    IF ~ss["quiz_started"]
    THEN IF click.kind = "start"
         THEN StRerun(SetKey(SetKey(ss, "quiz_started", TRUE), "start_time", now),
                      [no |-> h.no + 1, log |-> Append(h.log, <<>>),
                       by |-> Append(h.by, get_current_user_id(ss))])
         ELSE IF click.kind = "back"
         THEN StRerun(SetKey(ss, "page", "quizzes"), h)
         ELSE Shown(ss, h, Page("ready", {}))
    ELSE IF ~(QuizSessionKeys \subseteq DOMAIN ss)
    THEN Raised(ss, h)                 \* st.session_state has no such key
    ELSE StartedQuiz(ss, SessionQuestions(ss, quiz_id), quiz_id, click, h)

\* take_quiz, lines 285-291: the quiz session keys are set when
\* 'quiz_started' is not in st.session_state
InitQuizSession(ss, quiz_id) ==
    IF "quiz_started" \in DOMAIN ss THEN ss
    ELSE ss @@ [quiz_started |-> FALSE,
                current_question |-> 0,
                user_answers |-> <<>>,
                start_time |-> NoStartTime,
                quiz_questions |-> QuizQuestions(quiz_id)]

\* take_quiz(quiz_id)
take_quiz(ss, quiz_id, click, h) ==
    IF quiz_id \notin DOMAIN quizzes
    THEN Shown(ss, h, Page("not_found", {"Quiz not found"}))
    ELSE QuizPage(InitQuizSession(ss, quiz_id), quiz_id, click, h)

\* show_quizzes(level_id)
show_quizzes(ss, level_id, click, h) ==
    LET listed == get_visible_quizzes_by_level(level_id, ss["is_admin"])
    IN IF click.kind = "open" /\ click.arg \in listed
       THEN StRerun(SetKey(SetKey(ss, "current_quiz_id", click.arg), "page", "take_quiz"),
                    h)
       ELSE Shown(ss, h, Page("quizzes", {}))

\* require_auth(): st.session_state.authenticated
require_auth(ss) == ss["authenticated"]

\* require_admin(): st.session_state.get('is_admin', False)
require_admin(ss) == IF "is_admin" \in DOMAIN ss THEN ss["is_admin"] ELSE FALSE

\* login_user on a row authenticate_user returned
login_user(ss, user) ==
    [k \in DOMAIN ss \cup {"authenticated", "user_id", "username", "is_admin"} |->
        CASE k = "authenticated" -> TRUE
          [] k = "user_id" -> user.id
          [] k = "username" -> user.username
          [] k = "is_admin" -> user.is_admin
          [] OTHER -> ss[k]]

\* logout_user(): the five authentication keys are reset, no other key
logout_user(ss) ==
    [k \in DOMAIN ss \cup {"authenticated", "user_id", "username", "is_admin"} |->
        CASE k = "authenticated" -> FALSE
          [] k = "user_id" -> NoId
          [] k = "username" -> ""
          [] k = "is_admin" -> FALSE
          [] OTHER -> ss[k]]

\* clear_student_navigation_state(): the keys of keys_to_clear are deleted
clear_student_navigation_state(ss) ==
    DelKeys(ss, {"navigation_path", "current_subject_id", "current_topic_id",
                 "current_class_id", "current_level_id", "current_quiz_id",
                 "quiz_questions", "current_question_index", "user_answers",
                 "quiz_start_time", "quiz_results"})

\* clear_admin_navigation_state(): the keys of keys_to_clear are deleted
clear_admin_navigation_state(ss) ==
    DelKeys(ss, {"admin_page", "editing_quiz_id", "deleting_quiz_id",
                 "show_delete_confirm"})

\* show_admin_dashboard up to its tabs: page = "admin", the keys of
\* student_nav_keys deleted
show_admin_dashboard(ss, h) ==
    Shown(DelKeys(SetKey(ss, "page", "admin"),
                  {"current_subject_id", "current_topic_id", "current_class_id",
                   "current_level_id", "current_quiz_id", "navigation_path"}),
          h, Page("admin", {}))

\* show_login_form: the Login form; click.arg is <<username, password>>
show_login_form(ss, click, h) ==
    IF click.kind = "login"
    THEN IF click.arg[1] # "" /\ click.arg[2] # ""
         THEN IF Authenticated(click.arg[1], click.arg[2]) # {}
              THEN StRerun(login_user(ss, CHOOSE user \in
                                Authenticated(click.arg[1], click.arg[2]) : TRUE), h)
              ELSE Shown(ss, h, Page("login", {"Invalid username or password"}))
         ELSE Shown(ss, h, Page("login", {"Please enter both username and password"}))
    ELSE Shown(ss, h, Page("login", {}))

\* the page dispatch of main(), after the sidebar: the page
\* st.session_state.page names.  The subject, topic, class and level pages
\* only set page and the current_*_id keys; their chain of clicks is the one
\* event "level".
Dispatch(ss, page, click, h) ==
    IF page = "subjects"
    THEN IF click.kind = "level"
         THEN StRerun(SetKey(SetKey(ss, "current_level_id", click.arg), "page", "quizzes"),
                      h)
         ELSE Shown(ss, h, Page("subjects", {}))
    ELSE IF page = "quizzes"
    THEN IF "current_level_id" \in DOMAIN ss
         THEN show_quizzes(ss, ss["current_level_id"], click, h)
         ELSE StRerun(SetKey(ss, "page", "subjects"), h)
    ELSE IF page = "take_quiz"
    THEN IF "current_quiz_id" \in DOMAIN ss
         THEN take_quiz(ss, ss["current_quiz_id"], click, h)
         ELSE StRerun(SetKey(ss, "page", "subjects"), h)
    ELSE IF page = "admin"
    THEN IF require_admin(ss)
         THEN show_admin_dashboard(ss, h)
         ELSE StRerun(SetKey(ss, "page", "subjects"), h)
    ELSE StRerun(SetKey(ss, "page", "subjects"), h)

\* main(): the login form for a session that is not authenticated, else the
\* sidebar's buttons, then the page
main(ss, click, h) ==
    IF ~require_auth(ss)
    THEN show_login_form(ss, click, h)
    ELSE IF require_admin(ss) /\ click.kind = "admin"
    THEN StRerun(clear_student_navigation_state(SetKey(ss, "page", "admin")), h)
    ELSE IF require_admin(ss) /\ click.kind = "student_view"
    THEN StRerun(clear_admin_navigation_state(SetKey(ss, "page", "subjects")), h)
    ELSE IF ~require_admin(ss) /\ click.kind = "subjects"
    THEN StRerun(SetKey(ss, "page", "subjects"), h)
    ELSE IF click.kind = "logout"
    THEN StRerun(logout_user(ss), h)
    ELSE Dispatch(ss, IF "page" \in DOMAIN ss THEN ss["page"] ELSE "subjects", click, h)

\* the runs one widget event causes: the run with the event and the runs
\* st.rerun() starts (a rerun has no event; a rerun redirects at most once)
Rerun2(r, click) == IF r.rerun THEN main(r.ss, NoClick(click), r.hist) ELSE r

Rerun1(r, click) ==
    IF r.rerun THEN Rerun2(main(r.ss, NoClick(click), r.hist), click) ELSE r

Script(ss, click, h) == Rerun1(main(ss, click, h), click)

----------------------------------------------------------------------------
(* The initial state: the store after setup (an admin, a student, two       *)
(* quizzes of one level) and a browser session with the student logged in. *)

\* DatabaseManager.create_admin_user(), run by init_app() at the top of every
\* run of the script: the user rows afterwards
create_admin_user(username, password, db) ==
    IF {u \in UserByName(username) : u.is_admin} = {} /\ db
       /\ UserByName(username) = {}
    THEN users \cup {[id |-> next_user_id, username |-> username,
                      password_hash |-> sha256(password), is_admin |-> TRUE]}
    ELSE users

\* what a DatabaseManager user operation returned: the operation and its
\* arguments, the success flag (for create_user: a user was returned), the
\* message, and whether the database answered during the call
Returned(op, id, username, ok, msg, db) ==
    [op |-> op, id |-> id, username |-> username, ok |-> ok, msg |-> msg, db |-> db]

\* the database sessions (get_session()) of handlers that run at the same
\* time, each in a browser session of its own
DbSessions == {"a", "b"}

\* a database session no handler has open
Closed == [op |-> "none", pc |-> "closed"]

Init ==
    /\ users = {[id |-> 1, username |-> "admin", password_hash |-> sha256("pw1"),
                 is_admin |-> TRUE],
                [id |-> 2, username |-> "amy", password_hash |-> sha256("pw1"),
                 is_admin |-> FALSE]}
    /\ next_user_id = 3
    /\ subjects = {[id |-> 1, name |-> "S"]}
    /\ topics = {[id |-> 1, name |-> "T", subject_id |-> 1]}
    /\ classes = {[id |-> 1, name |-> "C", topic_id |-> 1]}
    /\ levels = {[id |-> 1, name |-> "L", class_id |-> 1]}
    /\ next_hierarchy_id = [subject |-> 2, topic |-> 2, class |-> 2, level |-> 2]
    /\ quizzes = (1 :> [title |-> "A", description |-> "", time_limit |-> 1,
                        is_visible |-> TRUE, level_id |-> 1]
               @@ 2 :> [title |-> "B", description |-> "", time_limit |-> 1,
                        is_visible |-> TRUE, level_id |-> 1])
    /\ next_quiz_id = 3
    /\ questions = {[id |-> 1, quiz_id |-> 1, question |-> "q", explanation |-> ""],
                    [id |-> 2, quiz_id |-> 1, question |-> "q", explanation |-> ""]}
    /\ next_question_id = 3
    /\ answers = {[id |-> 1, question_id |-> 1, text |-> "x", is_correct |-> FALSE],
                  [id |-> 2, question_id |-> 1, text |-> "y", is_correct |-> TRUE],
                  [id |-> 3, question_id |-> 2, text |-> "x", is_correct |-> FALSE],
                  [id |-> 4, question_id |-> 2, text |-> "y", is_correct |-> FALSE]}
    /\ next_answer_id = 5
    /\ attempts = {}
    /\ next_attempt_id = 1
    /\ now = 0
    /\ session_state = [authenticated |-> TRUE, user_id |-> 2, username |-> "amy",
                        is_admin |-> FALSE, page |-> "subjects"]
    /\ view = Page("subjects", {})
    /\ ret = Returned("none", NoId, "", TRUE, "", TRUE)
    /\ session_no = 0
    /\ session_log = <<>>
    /\ session_by = <<>>
    /\ password_set = (1 :> "pw1" @@ 2 :> "pw1")
    /\ db_sessions = [s \in DbSessions |-> Closed]

----------------------------------------------------------------------------
(* Browser events of the student's session *)

\* history: password was set for the inserted rows new_users
PasswordsSetFor(new_users, password) ==
    [i \in DOMAIN password_set \cup {u.id : u \in new_users} |->
        IF i \in {u.id : u \in new_users} THEN password ELSE password_set[i]]

\* the state after a run: its outcome o, and the user table after init_app,
\* which sets admin_password for an admin it inserts
AfterRun(o, after_init_app, admin_password) ==
    /\ session_state' = o.ss
    /\ attempts' = o.attempts
    /\ next_attempt_id' = o.next_attempt_id
    /\ view' = o.view
    /\ session_no' = o.hist.no
    /\ session_log' = o.hist.log
    /\ session_by' = o.hist.by
    /\ users' = after_init_app
    /\ next_user_id' = next_user_id + Cardinality(after_init_app \ users)
    /\ password_set' = PasswordsSetFor(after_init_app \ users, admin_password)
    /\ UNCHANGED <<content_vars, now, ret, db_sessions>>

\* the run of the script for one widget event
Event(click) ==
    AfterRun(Script(session_state, click,
                    [no |-> session_no, log |-> session_log, by |-> session_by]),
             create_admin_user("admin", "admin123", click.db), "admin123")

\* the question screen is on the page, with its question, options and buttons
OnQuestionScreen == view.screen = "question"
ShownQuestion == view.shown[1]

\* sidebar: Browse Subjects
BrowseSubjects ==
    /\ session_state["authenticated"]
    /\ ~require_admin(session_state)
    /\ \E db \in BOOLEAN : Event(Click("subjects", 0, db))

\* sidebar of an admin: Admin
ClickAdmin ==
    /\ session_state["authenticated"]
    /\ require_admin(session_state)
    /\ Event(Click("admin", 0, TRUE))

\* sidebar of an admin: Student View
ClickStudentView ==
    /\ session_state["authenticated"]
    /\ require_admin(session_state)
    /\ Event(Click("student_view", 0, TRUE))

\* sidebar: Logout
ClickLogout ==
    /\ session_state["authenticated"]
    /\ Event(Click("logout", 0, TRUE))

\* the login form: Login with a username and a password
Login(username, password) ==
    /\ ~session_state["authenticated"]
    /\ Event(Click("login", <<username, password>>, TRUE))

\* the subject, topic, class and level pages: a level is chosen
ChooseLevel ==
    /\ view.screen = "subjects"
    /\ \E db \in BOOLEAN : Event(Click("level", 1, db))

\* show_quizzes: Start Quiz / Retake Quiz of a listed quiz
OpenQuiz(q) ==
    /\ view.screen = "quizzes"
    /\ \E db \in BOOLEAN : Event(Click("open", q, db))

\* take_quiz: Start Quiz
ClickStart ==
    /\ view.screen = "ready"
    /\ session_no < MaxSessions
    /\ \E db \in BOOLEAN : Event(Click("start", 0, db))

\* take_quiz: Back to Quizzes
ClickBack ==
    /\ view.screen = "ready"
    /\ \E db \in BOOLEAN : Event(Click("back", 0, db))

\* take_quiz: an option of the radio is chosen
SelectAnswer(o) ==
    /\ OnQuestionScreen
    /\ o + 1 \in DOMAIN ShownQuestion.options
    /\ \E db \in BOOLEAN : Event(Click("select", o, db))

\* take_quiz: Previous
ClickPrevious ==
    /\ OnQuestionScreen
    /\ "prev" \in ShownQuestion.buttons
    /\ \E db \in BOOLEAN : Event(Click("prev", 0, db))

\* take_quiz: Next
ClickNext ==
    /\ OnQuestionScreen
    /\ "next" \in ShownQuestion.buttons
    /\ \E db \in BOOLEAN : Event(Click("next", 0, db))

\* take_quiz: Question List
ClickQuestionList ==
    /\ OnQuestionScreen
    /\ \E db \in BOOLEAN : Event(Click("list", 0, db))

\* show_question_list: the button of question i.  The list is drawn by the
\* run for the Question List click; here a click on one of its buttons takes
\* effect whenever the question screen is on the page.
JumpTo(i) ==
    /\ OnQuestionScreen
    /\ i \in ShownQuestion.targets
    /\ \E db \in BOOLEAN : Event(Click("jump", i, db))

\* take_quiz: Submit Quiz
ClickSubmit ==
    /\ OnQuestionScreen
    /\ "submit" \in ShownQuestion.buttons
    /\ \E db \in BOOLEAN : Event(Click("submit", 0, db))

\* any other event on the quiz page, or Return to Home under the error
\* message: the script runs again (a poll)
Rerun ==
    /\ session_state["page"] = "take_quiz" \/ view.screen = "error"
    /\ \E db \in BOOLEAN : Event(Click("none", 0, db))

----------------------------------------------------------------------------
(* The environment *)

Tick ==
    /\ now + TickStep <= MaxTime
    /\ now' = now + TickStep
    /\ UNCHANGED <<store_vars, password_set, browser_vars, ret, db_sessions>>

----------------------------------------------------------------------------
(* Admin operations on the content (admin_utils), run from the admin's own  *)
(* browser session.  A failed operation rolls back and changes nothing.    *)

\* the Answer rows made by "for i, option in enumerate(options)"
NewAnswers(question_id, options, correct_index, first_id) ==
    {[id |-> first_id + i - 1, question_id |-> question_id, text |-> options[i],
      is_correct |-> (i - 1 = correct_index)] : i \in 1..Len(options)}

\* add_question_to_quiz(db_manager, quiz_id, question_text, options, correct_index)
add_question_to_quiz(quiz_id, question_text, options, correct_index) ==
    /\ quiz_id \in DOMAIN quizzes
    /\ next_question_id <= MaxQuestionId
    /\ next_answer_id + Len(options) - 1 <= MaxAnswerId
    /\ questions' = questions \cup
           {[id |-> next_question_id, quiz_id |-> quiz_id,
             question |-> question_text, explanation |-> ""]}
    /\ next_question_id' = next_question_id + 1
    /\ answers' = answers \cup
           NewAnswers(next_question_id, options, correct_index, next_answer_id)
    /\ next_answer_id' = next_answer_id + Len(options)
    /\ UNCHANGED <<hierarchy_vars, quizzes, next_quiz_id, user_vars, attempts,
                   next_attempt_id, now, browser_vars, ret, db_sessions>>

\* update_question(db_manager, question_id, question_text, options, correct_index)
update_question(question_id, question_text, options, correct_index) ==
    /\ \E q \in questions : q.id = question_id
    /\ next_answer_id + Len(options) - 1 <= MaxAnswerId
    /\ questions' = {IF q.id = question_id
                     THEN [q EXCEPT !.question = question_text, !.explanation = ""]
                     ELSE q : q \in questions}
    /\ answers' = (answers \ AnswersOf(question_id)) \cup
           NewAnswers(question_id, options, correct_index, next_answer_id)
    /\ next_answer_id' = next_answer_id + Len(options)
    /\ UNCHANGED <<hierarchy_vars, quizzes, next_quiz_id, next_question_id,
                   user_vars, attempts, next_attempt_id, now, browser_vars, ret,
                   db_sessions>>

\* delete_question(db_manager, question_id)
delete_question(question_id) ==
    /\ \E q \in questions : q.id = question_id
    /\ answers' = answers \ AnswersOf(question_id)
    /\ questions' = {q \in questions : q.id # question_id}
    /\ UNCHANGED <<hierarchy_vars, quizzes, next_quiz_id, next_question_id,
                   next_answer_id, user_vars, attempts, next_attempt_id, now,
                   browser_vars, ret, db_sessions>>

\* update_quiz_metadata(db_manager, quiz_id, title, description, time_limit);
\* an unknown quiz or a failed commit changes nothing and returns False
update_quiz_metadata(quiz_id, title, description, time_limit, db) ==
    /\ quizzes' = IF db /\ quiz_id \in DOMAIN quizzes
                  THEN [quizzes EXCEPT ![quiz_id].title = title,
                                       ![quiz_id].description = description,
                                       ![quiz_id].time_limit = time_limit]
                  ELSE quizzes
    /\ UNCHANGED <<hierarchy_vars, next_quiz_id, questions, next_question_id,
                   answers, next_answer_id, user_vars, attempts, next_attempt_id,
                   now, browser_vars, ret, db_sessions>>

\* the content tables as the database session of an import sees them
Tx ==
    [subjects |-> subjects, topics |-> topics, classes |-> classes,
     levels |-> levels, next_hierarchy_id |-> next_hierarchy_id,
     quizzes |-> quizzes, next_quiz_id |-> next_quiz_id,
     questions |-> questions, next_question_id |-> next_question_id,
     answers |-> answers, next_answer_id |-> next_answer_id, ok |-> TRUE]

\* data.get(key, default)
Get(data, key, default) == IF key \in DOMAIN data THEN data[key] ELSE default

\* process_quiz_upload: one pass of the "Process questions" loop.  The
\* question is added and flushed; question_data['options'] and, in the loop
\* over the options, question_data['answer'] raise KeyError when missing
ImportQuestion(tx, quiz_id, question_data) ==
    IF \/ "options" \notin DOMAIN question_data
       \/ /\ Len(question_data.options) > 0
          /\ "answer" \notin DOMAIN question_data
    THEN [tx EXCEPT !.questions = @ \cup
                        {[id |-> tx.next_question_id, quiz_id |-> quiz_id,
                          question |-> question_data.question,
                          explanation |-> Get(question_data, "explanation", "")]},
                    !.next_question_id = @ + 1,
                    !.ok = FALSE]
    ELSE [tx EXCEPT !.questions = @ \cup
                        {[id |-> tx.next_question_id, quiz_id |-> quiz_id,
                          question |-> question_data.question,
                          explanation |-> Get(question_data, "explanation", "")]},
                    !.next_question_id = @ + 1,
                    !.answers = @ \cup
                        IF Len(question_data.options) = 0 THEN {}
                        ELSE NewAnswers(tx.next_question_id, question_data.options,
                                        question_data.answer, tx.next_answer_id),
                    !.next_answer_id = @ + Len(question_data.options)]

\* process_quiz_upload: the "Process questions" loop from document question j
\* on; an exception ends the import
RECURSIVE ImportQuestions(_, _, _, _)
ImportQuestions(tx, quiz_id, docs, j) ==
    IF j > Len(docs) \/ ~tx.ok THEN tx
    ELSE ImportQuestions(ImportQuestion(tx, quiz_id, docs[j]), quiz_id, docs, j + 1)

\* a faulty variant of ExistingQuiz: the lookup finds nothing
ExistingQuiz_None(tx, title, level_id) == {}

\* session.query(Quiz).filter_by(title=quiz_data['title'], level_id=level.id)
ExistingQuiz(tx, title, level_id) ==
    {q \in DOMAIN tx.quizzes :
        tx.quizzes[q].title = title /\ tx.quizzes[q].level_id = level_id}

\* "Update existing quiz": description and time_limit are set, the questions
\* of the quiz are deleted (with their answers, by the cascade)
UpdateExistingQuiz(tx, q, quiz_data) ==
    [tx EXCEPT !.quizzes[q].description = Get(quiz_data, "description", ""),
               !.quizzes[q].time_limit = Get(quiz_data, "time_limit", DefaultTimeLimit),
               !.questions = {x \in @ : x.quiz_id # q},
               !.answers = {a \in @ : \A x \in tx.questions :
                                          x.quiz_id = q => a.question_id # x.id}]

\* "Create new quiz"
CreateNewQuiz(tx, level_id, quiz_data) ==
    [tx EXCEPT !.quizzes = @ @@ (tx.next_quiz_id :>
                   [title |-> quiz_data.title,
                    description |-> Get(quiz_data, "description", ""),
                    time_limit |-> Get(quiz_data, "time_limit", DefaultTimeLimit),
                    is_visible |-> TRUE, level_id |-> level_id]),
               !.next_quiz_id = @ + 1]

\* process_quiz_upload: one pass of the "Process quizzes" loop
ImportQuiz(tx, level_id, quiz_data) ==
    IF ExistingQuiz(tx, quiz_data.title, level_id) # {}
    THEN ImportQuestions(
             UpdateExistingQuiz(tx, CHOOSE q \in ExistingQuiz(tx, quiz_data.title, level_id) :
                                        TRUE, quiz_data),
             CHOOSE q \in ExistingQuiz(tx, quiz_data.title, level_id) : TRUE,
             Get(quiz_data, "questions", <<>>), 1)
    ELSE ImportQuestions(CreateNewQuiz(tx, level_id, quiz_data), tx.next_quiz_id,
                         Get(quiz_data, "questions", <<>>), 1)

RECURSIVE ImportQuizzes(_, _, _, _)
ImportQuizzes(tx, level_id, docs, j) ==
    IF j > Len(docs) \/ ~tx.ok THEN tx
    ELSE ImportQuizzes(ImportQuiz(tx, level_id, docs[j]), level_id, docs, j + 1)

\* process_quiz_upload: one pass of the "Process levels" loop, get or create
ImportLevel(tx, class_id, level_data) ==
    IF \E l \in tx.levels : l.name = level_data.name /\ l.class_id = class_id
    THEN ImportQuizzes(tx, (CHOOSE l \in tx.levels : /\ l.name = level_data.name
                                                    /\ l.class_id = class_id).id,
                       Get(level_data, "quizzes", <<>>), 1)
    ELSE ImportQuizzes(
             [tx EXCEPT !.levels = @ \cup {[id |-> tx.next_hierarchy_id.level,
                                            name |-> level_data.name,
                                            class_id |-> class_id]},
                        !.next_hierarchy_id.level = @ + 1],
             tx.next_hierarchy_id.level, Get(level_data, "quizzes", <<>>), 1)

RECURSIVE ImportLevels(_, _, _, _)
ImportLevels(tx, class_id, docs, j) ==
    IF j > Len(docs) \/ ~tx.ok THEN tx
    ELSE ImportLevels(ImportLevel(tx, class_id, docs[j]), class_id, docs, j + 1)

\* process_quiz_upload: one pass of the "Process classes" loop, get or create
ImportClass(tx, topic_id, class_data) ==
    IF \E c \in tx.classes : c.name = class_data.name /\ c.topic_id = topic_id
    THEN ImportLevels(tx, (CHOOSE c \in tx.classes : /\ c.name = class_data.name
                                                    /\ c.topic_id = topic_id).id,
                      Get(class_data, "levels", <<>>), 1)
    ELSE ImportLevels(
             [tx EXCEPT !.classes = @ \cup {[id |-> tx.next_hierarchy_id.class,
                                             name |-> class_data.name,
                                             topic_id |-> topic_id]},
                        !.next_hierarchy_id.class = @ + 1],
             tx.next_hierarchy_id.class, Get(class_data, "levels", <<>>), 1)

RECURSIVE ImportClasses(_, _, _, _)
ImportClasses(tx, topic_id, docs, j) ==
    IF j > Len(docs) \/ ~tx.ok THEN tx
    ELSE ImportClasses(ImportClass(tx, topic_id, docs[j]), topic_id, docs, j + 1)

\* process_quiz_upload: one pass of the "Process topics" loop, get or create
ImportTopic(tx, subject_id, topic_data) ==
    IF \E t \in tx.topics : t.name = topic_data.name /\ t.subject_id = subject_id
    THEN ImportClasses(tx, (CHOOSE t \in tx.topics : /\ t.name = topic_data.name
                                                    /\ t.subject_id = subject_id).id,
                       Get(topic_data, "classes", <<>>), 1)
    ELSE ImportClasses(
             [tx EXCEPT !.topics = @ \cup {[id |-> tx.next_hierarchy_id.topic,
                                            name |-> topic_data.name,
                                            subject_id |-> subject_id]},
                        !.next_hierarchy_id.topic = @ + 1],
             tx.next_hierarchy_id.topic, Get(topic_data, "classes", <<>>), 1)

RECURSIVE ImportTopics(_, _, _, _)
ImportTopics(tx, subject_id, docs, j) ==
    IF j > Len(docs) \/ ~tx.ok THEN tx
    ELSE ImportTopics(ImportTopic(tx, subject_id, docs[j]), subject_id, docs, j + 1)

\* process_quiz_upload: "Get or create subject", then the loops
ImportSubject(tx, subject_data) ==
    IF \E x \in tx.subjects : x.name = subject_data.name
    THEN ImportTopics(tx, (CHOOSE x \in tx.subjects : x.name = subject_data.name).id,
                      Get(subject_data, "topics", <<>>), 1)
    ELSE ImportTopics(
             [tx EXCEPT !.subjects = @ \cup {[id |-> tx.next_hierarchy_id.subject,
                                              name |-> subject_data.name]},
                        !.next_hierarchy_id.subject = @ + 1],
             tx.next_hierarchy_id.subject, Get(subject_data, "topics", <<>>), 1)

\* a faulty variant of Rollback: the rows written before the failure stay
Rollback_Partial(tx, db) == [tx EXCEPT !.ok = FALSE]

\* session.rollback(): the tables are as before the import; the ids the
\* flushes drew from the sequences of the database are not given back
Rollback(tx, db) ==
    [Tx EXCEPT !.next_hierarchy_id = IF db THEN tx.next_hierarchy_id ELSE @,
               !.next_quiz_id = IF db THEN tx.next_quiz_id ELSE @,
               !.next_question_id = IF db THEN tx.next_question_id ELSE @,
               !.next_answer_id = IF db THEN tx.next_answer_id ELSE @,
               !.ok = FALSE]

\* session.commit() and "return True", or the except branch: rollback,
\* st.error and "return False"
EndImport(tx, db) ==
    /\ tx.next_hierarchy_id.subject <= MaxHierarchyId + 1
    /\ tx.next_hierarchy_id.topic <= MaxHierarchyId + 1
    /\ tx.next_hierarchy_id.class <= MaxHierarchyId + 1
    /\ tx.next_hierarchy_id.level <= MaxHierarchyId + 1
    /\ tx.next_quiz_id <= MaxQuizId + 1
    /\ tx.next_question_id <= MaxImportedQuestionId + 1
    /\ tx.next_answer_id <= MaxImportedAnswerId + 1
    /\ subjects' = tx.subjects
    /\ topics' = tx.topics
    /\ classes' = tx.classes
    /\ levels' = tx.levels
    /\ next_hierarchy_id' = tx.next_hierarchy_id
    /\ quizzes' = tx.quizzes
    /\ next_quiz_id' = tx.next_quiz_id
    /\ questions' = tx.questions
    /\ next_question_id' = tx.next_question_id
    /\ answers' = tx.answers
    /\ next_answer_id' = tx.next_answer_id
    /\ UNCHANGED <<user_vars, attempts, next_attempt_id, now, browser_vars, ret,
                   db_sessions>>

\* the import reaches its commit, or fails and is rolled back
Import(tx, db) == EndImport(IF db /\ tx.ok THEN tx ELSE Rollback(tx, db), db)

\* process_quiz_upload(quiz_data); db says whether the database answers
process_quiz_upload(quiz_data, db) == Import(ImportSubject(Tx, quiz_data.subject), db)

\* what process_quiz_upload(quiz_data) returns: True after the commit, False
\* from the except branch
upload_success(quiz_data, db) == db /\ ImportSubject(Tx, quiz_data.subject).ok

\* an import document with one subject/topic/class/level path
PathDoc(subject, topic, class, level, quiz_docs) ==
    [subject |-> [name |-> subject, topics |-> <<
        [name |-> topic, classes |-> <<
            [name |-> class, levels |-> <<
                [name |-> level, quizzes |-> quiz_docs]>>]>>]>>]]

\* the import documents of the admin editing the content: one quiz of the
\* existing level, named like an existing quiz, with no question or one
ImportDocs ==
    {PathDoc("S", "T", "C", "L",
             <<[title |-> t, description |-> "", time_limit |-> 1, questions |-> qs]>>) :
        t \in {"A"},
        qs \in {<<>>} \cup
               {<<[question |-> qt, options |-> o, answer |-> c, explanation |-> ""]>> :
                   qt \in QuestionTexts, o \in OptionLists, c \in CorrectIndexes}}

\* a document question with two options; answer is the index of the correct one
DocQuestion(answer) ==
    [question |-> "q", options |-> <<"x", "y">>, answer |-> answer,
     explanation |-> ""]

\* the documents of the admin's bulk uploads: of the existing path with a
\* valid and with an out-of-range answer index, of a new level, of a new
\* subject, and two whose last quiz holds a question without its answer or
\* without its options
UploadDocs ==
    {PathDoc("S", "T", "C", "L",
             <<[title |-> "A", description |-> "d", time_limit |-> 2,
                questions |-> <<DocQuestion(1)>>]>>),
     PathDoc("S", "T", "C", "L",
             <<[title |-> "A", questions |-> <<DocQuestion(2)>>]>>),
     PathDoc("S", "T", "C", "L2",
             <<[title |-> "A", description |-> "d", time_limit |-> 2,
                questions |-> <<>>]>>),
     PathDoc("S2", "T", "C", "L",
             <<[title |-> "A", description |-> "d", time_limit |-> 2,
                questions |-> <<DocQuestion(0)>>]>>),
     PathDoc("S", "T", "C", "L",
             <<[title |-> "A", description |-> "d", time_limit |-> 2,
                questions |-> <<DocQuestion(0)>>],
               [title |-> "B", description |-> "d", time_limit |-> 2,
                questions |-> <<[question |-> "q", options |-> <<"x", "y">>,
                                 explanation |-> ""]>>]>>),
     PathDoc("S", "T", "C", "L3",
             <<[title |-> "B", description |-> "d", time_limit |-> 2,
                questions |-> <<[question |-> "q", answer |-> 0,
                                 explanation |-> ""]>>]>>)}

----------------------------------------------------------------------------
(* Reading the hierarchy back *)

\* Question.to_dict() of a question row of the tables tx, without its id
to_dict(tx, question) ==
    [question |-> question.question,
     explanation |-> question.explanation,
     options |-> LET sorted == SortById({a \in tx.answers :
                                            a.question_id = question.id})
                 IN [i \in 1..Len(sorted) |-> sorted[i].text],
     correct_index |-> CorrectIndexOf([answers |-> {a \in tx.answers :
                                                       a.question_id = question.id}])]

\* Quiz.to_dict() with the quiz's id, its questions in id order
QuizRead(tx, q) ==
    [id |-> q, title |-> tx.quizzes[q].title,
     description |-> tx.quizzes[q].description,
     time_limit |-> tx.quizzes[q].time_limit,
     questions |-> LET rows == SortById({x \in tx.questions : x.quiz_id = q})
                   IN [i \in 1..Len(rows) |-> to_dict(tx, rows[i])]]

\* Level.quizzes, read in id order
LevelRead(tx, level) ==
    [id |-> level.id, name |-> level.name,
     quizzes |-> LET rows == SortById({[id |-> q] : q \in
                                 {q \in DOMAIN tx.quizzes :
                                     tx.quizzes[q].level_id = level.id}})
                 IN [i \in 1..Len(rows) |-> QuizRead(tx, rows[i].id)]]

\* Class.levels, read in id order
ClassRead(tx, class) ==
    [id |-> class.id, name |-> class.name,
     levels |-> LET rows == SortById({l \in tx.levels : l.class_id = class.id})
                IN [i \in 1..Len(rows) |-> LevelRead(tx, rows[i])]]

\* Topic.classes, read in id order
TopicRead(tx, topic) ==
    [id |-> topic.id, name |-> topic.name,
     classes |-> LET rows == SortById({c \in tx.classes : c.topic_id = topic.id})
                 IN [i \in 1..Len(rows) |-> ClassRead(tx, rows[i])]]

\* Subject.topics, read in id order
SubjectRead(tx, subject) ==
    [id |-> subject.id, name |-> subject.name,
     topics |-> LET rows == SortById({t \in tx.topics : t.subject_id = subject.id})
                IN [i \in 1..Len(rows) |-> TopicRead(tx, rows[i])]]

\* DatabaseManager.get_subjects_with_full_hierarchy() over the tables tx,
\* each quiz with its to_dict(): the rows of every table in id order
get_subjects_with_full_hierarchy(tx) ==
    LET rows == SortById(tx.subjects)
    IN [i \in 1..Len(rows) |-> SubjectRead(tx, rows[i])]

----------------------------------------------------------------------------
(* User management (DatabaseManager), called from the admin's user pages    *)
(* and from registration.  db says whether the database answers during the *)
(* call; when it does not, the call raises inside the try block, rolls     *)
(* back and returns its "Error ..." message.                               *)

\* session.query(User).filter_by(is_admin=True).count()
AdminCount == Cardinality({u \in users : u.is_admin})

\* a faulty variant of IsLastAdmin: admin_count < 1
IsLastAdmin_Off(user) == user.is_admin /\ AdminCount < 1

\* delete_user: the guard "admin_count <= 1" on an admin row
IsLastAdmin(user) == user.is_admin /\ AdminCount <= 1

\* a faulty variant of UsernameTaken: the lookup finds nothing
UsernameTaken_Never(username) == FALSE

\* create_user: existing_user, the row the lookup by username finds
UsernameTaken(username) == UserByName(username) # {}

\* DatabaseManager.create_user(username, password)
create_user(username, password, db) ==
    /\ (db /\ ~UsernameTaken(username)) => next_user_id <= MaxUserId
    /\ IF ~db
       THEN /\ ret' = Returned("create_user", NoId, username, FALSE,
                               "Error creating user", db)
            /\ UNCHANGED user_vars
       ELSE IF UsernameTaken(username)
       THEN /\ ret' = Returned("create_user", NoId, username, FALSE,
                               "Username already exists", db)
            /\ UNCHANGED user_vars
       ELSE /\ users' = users \cup
                    {[id |-> next_user_id, username |-> username,
                      password_hash |-> sha256(password), is_admin |-> FALSE]}
            /\ next_user_id' = next_user_id + 1
            /\ password_set' = PasswordsSetFor(users' \ users, password)
            /\ ret' = Returned("create_user", next_user_id, username, TRUE,
                               "User created successfully", db)
    /\ UNCHANGED <<content_vars, attempts, next_attempt_id, now, browser_vars,
                   db_sessions>>

\* an optional argument: None when it is not supplied, <<v>> when v is
None == <<>>

\* the arguments of an update_user call, kept with what it returned
UpdateReturned(user_id, username, is_admin, ok, msg, db) ==
    Returned("update_user", user_id, "", ok, msg, db)
        @@ [new_username |-> username, new_is_admin |-> is_admin]

\* a faulty variant of UsernameHeldByOther: the lookup finds nothing
UsernameHeldByOther_Never(user_id, username) == FALSE

\* update_user: "existing and existing.id != user_id"
UsernameHeldByOther(user_id, username) ==
    \E existing \in UserByName(username) : existing.id # user_id

\* update_user: the row of user after the assignments the call makes
UpdatedUser(user, username, is_admin) ==
    [user EXCEPT !.username = IF username # None THEN username[1] ELSE @,
                 !.is_admin = IF is_admin # None THEN is_admin[1] ELSE @]

\* DatabaseManager.update_user(user_id, username=None, is_admin=None)
update_user(user_id, username, is_admin, db) ==
    /\ IF ~db
       THEN /\ ret' = UpdateReturned(user_id, username, is_admin, FALSE,
                                     "Error updating user", db)
            /\ UNCHANGED users
       ELSE IF UserById(user_id) = {}
       THEN /\ ret' = UpdateReturned(user_id, username, is_admin, FALSE,
                                     "User not found", db)
            /\ UNCHANGED users
       ELSE IF /\ username # None
               /\ \E user \in UserById(user_id) : username[1] # user.username
               /\ UsernameHeldByOther(user_id, username[1])
       THEN /\ ret' = UpdateReturned(user_id, username, is_admin, FALSE,
                                     "Username already exists", db)
            /\ UNCHANGED users
       ELSE /\ users' = {IF u.id = user_id THEN UpdatedUser(u, username, is_admin)
                         ELSE u : u \in users}
            /\ ret' = UpdateReturned(user_id, username, is_admin, TRUE,
                                     "User updated successfully", db)
    /\ UNCHANGED <<next_user_id, password_set, content_vars, attempts,
                   next_attempt_id, now, browser_vars, db_sessions>>

\* DatabaseManager.authenticate_user(username, password), the database
\* answering; it returns the user or None
authenticate_user(username, password) ==
    /\ ret' = Returned("authenticate_user",
                       IF Authenticated(username, password) = {} THEN NoId
                       ELSE (CHOOSE user \in Authenticated(username, password) :
                                 TRUE).id,
                       username, Authenticated(username, password) # {}, "", TRUE)
                   @@ [password |-> password]
    /\ UNCHANGED <<user_vars, content_vars, attempts, next_attempt_id, now,
                   browser_vars, db_sessions>>

\* User.set_password(password) on the row of user
set_password(user, password) == [user EXCEPT !.password_hash = sha256(password)]

\* DatabaseManager.reset_password(user_id, new_password)
reset_password(user_id, new_password, db) ==
    /\ IF ~db
       THEN /\ ret' = Returned("reset_password", user_id, "", FALSE,
                               "Error resetting password", db)
            /\ UNCHANGED <<users, password_set>>
       ELSE IF UserById(user_id) = {}
       THEN /\ ret' = Returned("reset_password", user_id, "", FALSE,
                               "User not found", db)
            /\ UNCHANGED <<users, password_set>>
       ELSE /\ users' = {IF u.id = user_id THEN set_password(u, new_password)
                         ELSE u : u \in users}
            /\ password_set' = PasswordsSetFor(UserById(user_id), new_password)
            /\ ret' = Returned("reset_password", user_id, "", TRUE,
                               "Password reset successfully", db)
    /\ UNCHANGED <<next_user_id, content_vars, attempts, next_attempt_id, now,
                   browser_vars, db_sessions>>

\* DatabaseManager.delete_user(user_id); session.delete(user) cascades to the
\* user's quiz_attempts (User.quiz_attempts, cascade='all, delete-orphan')
delete_user(user_id, db) ==
    /\ IF ~db
       THEN /\ ret' = Returned("delete_user", user_id, "", FALSE,
                               "Error deleting user", db)
            /\ UNCHANGED <<users, attempts, password_set>>
       ELSE IF UserById(user_id) = {}
       THEN /\ ret' = Returned("delete_user", user_id, "", FALSE,
                               "User not found", db)
            /\ UNCHANGED <<users, attempts, password_set>>
       ELSE IF \E user \in UserById(user_id) : IsLastAdmin(user)
       THEN /\ ret' = Returned("delete_user", user_id, "", FALSE,
                               "Cannot delete the last admin user", db)
            /\ UNCHANGED <<users, attempts, password_set>>
       ELSE /\ users' = users \ UserById(user_id)
            /\ password_set' = [i \in DOMAIN password_set \ {user_id} |->
                                    password_set[i]]
            /\ attempts' = {a \in attempts : a.user_id # user_id}
            /\ ret' = Returned("delete_user", user_id, "", TRUE,
                               "User deleted successfully", db)
    /\ UNCHANGED <<next_user_id, content_vars, next_attempt_id, now, browser_vars,
                   db_sessions>>

\* DatabaseManager.submit_quiz_attempt called for a quiz a user completed in
\* a browser session of their own
SaveQuizAttempt(user_id, quiz_id, db) ==
    /\ next_attempt_id <= MaxAttemptId
    /\ attempts' = attempts \cup submit_quiz_attempt(user_id, quiz_id, 0, 1, 0, <<>>, db)
    /\ next_attempt_id' = next_attempt_id + Cardinality(attempts' \ attempts)
    /\ UNCHANGED <<user_vars, content_vars, now, browser_vars, ret,
                   db_sessions>>

----------------------------------------------------------------------------
(* The quiz catalogue: visibility, deletion of quizzes, stored attempts *)

\* DatabaseManager.toggle_quiz_visibility(quiz_id); it returns None and
\* changes nothing when no row has the id or the database does not answer
toggle_quiz_visibility(quiz_id, db) ==
    /\ quizzes' = IF db /\ quiz_id \in DOMAIN quizzes
                  THEN [quizzes EXCEPT ![quiz_id].is_visible = ~@]
                  ELSE quizzes
    /\ UNCHANGED <<hierarchy_vars, next_quiz_id, questions, next_question_id,
                   answers, next_answer_id, user_vars, attempts, next_attempt_id,
                   now, browser_vars, ret, db_sessions>>

\* a faulty variant of WithoutAttemptsOf: no attempt is deleted
WithoutAttemptsOf_Kept(quiz_id) == attempts

\* delete_quiz: session.query(QuizAttempt).filter_by(quiz_id=quiz_id).delete()
WithoutAttemptsOf(quiz_id) == {a \in attempts : a.quiz_id # quiz_id}

\* admin_utils.delete_quiz(db_manager, quiz_id): the attempts of the quiz
\* are deleted first, then the quiz, whose deletion cascades to its questions
\* and their answers; when no quiz has the id nothing is committed and
\* session.close() discards the deletion of the attempts
delete_quiz(quiz_id, db) ==
    /\ IF db /\ quiz_id \in DOMAIN quizzes
       THEN /\ attempts' = WithoutAttemptsOf(quiz_id)
            /\ quizzes' = [q \in DOMAIN quizzes \ {quiz_id} |-> quizzes[q]]
            /\ questions' = {q \in questions : q.quiz_id # quiz_id}
            /\ answers' = {a \in answers :
                              \E q \in questions' : q.id = a.question_id}
            /\ ret' = Returned("delete_quiz", quiz_id, "", TRUE, "", db)
       ELSE /\ UNCHANGED <<attempts, quizzes, questions, answers>>
            /\ ret' = Returned("delete_quiz", quiz_id, "", FALSE, "", db)
    /\ UNCHANGED <<hierarchy_vars, next_quiz_id, next_question_id,
                   next_answer_id, user_vars, next_attempt_id, now, browser_vars,
                   db_sessions>>

\* DatabaseManager.submit_quiz_attempt called at the end of a quiz session of
\* user_id over the questions of quiz_id, score of them answered correctly
QuizAttemptSubmitted(user_id, quiz_id, score, db) ==
    /\ next_attempt_id <= MaxStoredAttempts
    /\ score <= Len(QuizQuestions(quiz_id))
    /\ attempts' = attempts \cup
           submit_quiz_attempt(user_id, quiz_id, score, Len(QuizQuestions(quiz_id)),
                               0, <<>>, db)
    /\ next_attempt_id' = next_attempt_id + Cardinality(attempts' \ attempts)
    /\ UNCHANGED <<user_vars, content_vars, now, browser_vars, ret,
                   db_sessions>>

----------------------------------------------------------------------------
(* Handlers step by step, one database session each.  The database is      *)
(* PostgreSQL at its default isolation (read committed): a session's       *)
(* statements reach the tables at its commit, and a query reads what is    *)
(* committed when it runs.                                                 *)

\* a faulty variant of autocommit: every statement is committed as it runs
autocommit_On == TRUE

\* sessionmaker(autocommit=False, ...)
autocommit == FALSE

\* no handler runs in database session s
Free(s) == db_sessions[s].pc \in {"closed", "returned"}

\* a handler that writes the content is between its first query and its
\* commit in database session s
Writing(s) == db_sessions[s].op = "update_question" /\ ~Free(s)

\* what the other database sessions are doing
Others(s) == [t \in DbSessions \ {s} |-> db_sessions[t].pc]

\* update_question, lines 735-743: the question is looked up, and None
\* returns False; question_text and explanation are set on the loaded row.
\* Content edits run one at a time.
update_question_Query(s, question_id, question_text, options, correct_index) ==
    /\ Free(s)
    /\ \A t \in DbSessions : ~Writing(t)
    /\ db_sessions' = [db_sessions EXCEPT ![s] =
           [op |-> "update_question",
            pc |-> IF \E q \in questions : q.id = question_id
                   THEN "loaded" ELSE "returned",
            ok |-> FALSE,
            id |-> question_id, question_text |-> question_text,
            options |-> options, correct_index |-> correct_index,
            old_question |-> {q \in questions : q.id = question_id},
            old_answers |-> AnswersOf(question_id)]]
    /\ UNCHANGED <<store_vars, password_set, now, browser_vars, ret>>

\* update_question, line 747: the bulk delete of the old answers, a
\* statement of the open transaction
update_question_DeleteAnswers(s) ==
    /\ db_sessions[s].op = "update_question" /\ db_sessions[s].pc = "loaded"
    /\ db_sessions' = [db_sessions EXCEPT ![s].pc = "deleted"]
    /\ answers' = IF autocommit THEN answers \ AnswersOf(db_sessions[s].id)
                  ELSE answers
    /\ UNCHANGED <<users, next_user_id, hierarchy_vars, quizzes, next_quiz_id,
                   questions, next_question_id, next_answer_id, attempts,
                   next_attempt_id, password_set, now, browser_vars, ret>>

\* update_question, lines 749-761: the new answers are added and the
\* transaction commits and returns True, or the commit raises, the session
\* rolls back and the call returns False
update_question_Commit(s, db) ==
    /\ db_sessions[s].op = "update_question" /\ db_sessions[s].pc = "deleted"
    /\ next_answer_id + Len(db_sessions[s].options) - 1 <= MaxAnswerId
    /\ db_sessions' = [db_sessions EXCEPT ![s].pc = "returned", ![s].ok = db]
    /\ IF db
       THEN /\ questions' = {IF q.id = db_sessions[s].id
                             THEN [q EXCEPT !.question = db_sessions[s].question_text,
                                            !.explanation = ""]
                             ELSE q : q \in questions}
            /\ answers' = (answers \ AnswersOf(db_sessions[s].id)) \cup
                   NewAnswers(db_sessions[s].id, db_sessions[s].options,
                              db_sessions[s].correct_index, next_answer_id)
            /\ next_answer_id' = next_answer_id + Len(db_sessions[s].options)
       ELSE UNCHANGED <<questions, answers, next_answer_id>>
    /\ UNCHANGED <<users, next_user_id, hierarchy_vars, quizzes, next_quiz_id,
                   next_question_id, attempts, next_attempt_id, password_set,
                   now, browser_vars, ret>>

\* delete_user, lines 449-451: the user is looked up in database session s,
\* and None returns "User not found"
delete_user_Query(s, user_id) ==
    /\ Free(s)
    /\ db_sessions' = [db_sessions EXCEPT ![s] =
           [op |-> "delete_user",
            pc |-> IF UserById(user_id) = {} THEN "returned" ELSE "loaded",
            ok |-> FALSE,
            msg |-> IF UserById(user_id) = {} THEN "User not found" ELSE "",
            id |-> user_id,
            user |-> UserById(user_id),
            admins |-> {}]]
    /\ UNCHANGED <<store_vars, password_set, now, browser_vars, ret>>

\* delete_user, lines 453-457: for an admin row the admins are counted, and
\* admin_count <= 1 returns the last-admin error; admins is the rows counted
delete_user_CountAdmins(s) ==
    /\ db_sessions[s].op = "delete_user" /\ db_sessions[s].pc = "loaded"
    /\ db_sessions' = [db_sessions EXCEPT ![s] =
           IF \E user \in db_sessions[s].user : IsLastAdmin(user)
           THEN [@ EXCEPT !.pc = "returned",
                          !.msg = "Cannot delete the last admin user",
                          !.admins = {u.id : u \in {x \in users : x.is_admin}}]
           ELSE [@ EXCEPT !.pc = "checked",
                          !.admins = IF \E user \in db_sessions[s].user : user.is_admin
                                     THEN {u.id : u \in {x \in users : x.is_admin}}
                                     ELSE {}]]
    /\ UNCHANGED <<store_vars, password_set, now, browser_vars, ret>>

\* delete_user, lines 459-464: session.delete(user) and the commit, which
\* deletes the row and, by the cascade, the user's attempts, or raises
delete_user_Commit(s, db) ==
    /\ db_sessions[s].op = "delete_user" /\ db_sessions[s].pc = "checked"
    /\ db_sessions' = [db_sessions EXCEPT ![s].pc = "returned", ![s].ok = db,
                          ![s].msg = IF db THEN "User deleted successfully"
                                     ELSE "Error deleting user"]
    /\ IF db
       THEN /\ users' = users \ UserById(db_sessions[s].id)
            /\ password_set' = [i \in DOMAIN password_set \ {db_sessions[s].id} |->
                                    password_set[i]]
            /\ attempts' = {a \in attempts : a.user_id # db_sessions[s].id}
       ELSE UNCHANGED <<users, password_set, attempts>>
    /\ UNCHANGED <<next_user_id, content_vars, next_attempt_id, now, browser_vars,
                   ret>>

\* DatabaseManager.get_quiz_by_id(quiz_id) run by a reader in database
\* session s: one joined query; during is history, what the other sessions
\* were doing when the query ran
get_quiz_by_id_Read(s, quiz_id) ==
    /\ Free(s)
    /\ db_sessions' = [db_sessions EXCEPT ![s] =
           [op |-> "get_quiz_by_id", pc |-> "returned", id |-> quiz_id,
            read |-> get_quiz_by_id(quiz_id), during |-> Others(s)]]
    /\ UNCHANGED <<store_vars, password_set, now, browser_vars, ret>>

----------------------------------------------------------------------------
(* The student's quiz flow, with the admin deleting questions *)

Next ==
    \/ BrowseSubjects
    \/ ChooseLevel
    \/ \E q \in DOMAIN quizzes : OpenQuiz(q)
    \/ ClickStart
    \/ ClickBack
    \/ \E o \in 0..1 : SelectAnswer(o)
    \/ ClickPrevious
    \/ ClickNext
    \/ ClickQuestionList
    \/ \E i \in 0..(MaxQuestionId - 1) : JumpTo(i)
    \/ ClickSubmit
    \/ Rerun
    \/ Tick
    \/ \E q \in 1..MaxQuestionId : delete_question(q)

Spec == Init /\ [][Next]_vars

----------------------------------------------------------------------------
(* The student's quiz flow, straight through one level's quizzes, with the  *)
(* admin editing the content from another browser session                  *)

NextEdits ==
    \/ ChooseLevel
    \/ \E q \in DOMAIN quizzes : OpenQuiz(q)
    \/ ClickStart
    \/ \E o \in 0..1 : SelectAnswer(o)
    \/ ClickPrevious
    \/ ClickNext
    \/ ClickSubmit
    \/ Rerun
    \/ \E q \in DOMAIN quizzes, t \in QuestionTexts, o \in OptionLists,
          c \in CorrectIndexes : add_question_to_quiz(q, t, o, c)
    \/ \E q \in 1..MaxQuestionId, t \in QuestionTexts, o \in OptionLists,
          c \in CorrectIndexes : update_question(q, t, o, c)
    \/ \E q \in 1..MaxQuestionId : delete_question(q)
    \/ \E doc \in ImportDocs :
          /\ process_quiz_upload(doc, TRUE)
          /\ next_question_id' <= MaxQuestionId + 1
          /\ next_answer_id' <= MaxAnswerId + 1

SpecEdits == Init /\ [][NextEdits]_vars

----------------------------------------------------------------------------
(* User management with users completing quizzes *)

NextUsers ==
    \/ \E u \in Usernames, p \in Passwords, db \in BOOLEAN : create_user(u, p, db)
    \/ \E id \in 1..MaxUserId, a \in BOOLEAN, db \in BOOLEAN :
          update_user(id, None, <<a>>, db)
    \/ \E id \in 1..MaxUserId, db \in BOOLEAN : delete_user(id, db)
    \/ \E id \in 1..MaxUserId, db \in BOOLEAN : SaveQuizAttempt(id, 1, db)

SpecUsers == Init /\ [][NextUsers]_vars

----------------------------------------------------------------------------
(* Accounts: registration, renaming and role changes, password resets and  *)
(* logins                                                                  *)

NextAccounts ==
    \/ \E u \in Usernames, p \in Passwords, db \in BOOLEAN : create_user(u, p, db)
    \/ \E id \in 1..MaxUserId, u \in {None} \cup {<<n>> : n \in Usernames},
          a \in {None, <<TRUE>>, <<FALSE>>}, db \in BOOLEAN :
          update_user(id, u, a, db)
    \/ \E id \in 1..MaxUserId, p \in NewPasswords, db \in BOOLEAN :
          reset_password(id, p, db)
    \/ \E u \in Usernames, p \in NewPasswords : authenticate_user(u, p)

SpecAccounts == Init /\ [][NextAccounts]_vars

----------------------------------------------------------------------------
(* The catalogue with users completing quizzes over time *)

NextCatalog ==
    \/ \E q \in 1..MaxQuizId, db \in BOOLEAN : toggle_quiz_visibility(q, db)
    \/ \E q \in 1..MaxQuizId, db \in BOOLEAN : delete_quiz(q, db)
    \/ \E id \in 1..MaxUserId, q \in 1..MaxQuizId, score \in Scores, db \in BOOLEAN :
          QuizAttemptSubmitted(id, q, score, db)
    \/ \E q \in DOMAIN quizzes, t \in QuestionTexts, o \in OptionLists,
          c \in CorrectIndexes : add_question_to_quiz(q, t, o, c)
    \/ Tick

SpecCatalog == Init /\ [][NextCatalog]_vars

----------------------------------------------------------------------------
(* Bulk uploads of the admin *)

NextImport ==
    \/ \E doc \in UploadDocs, db \in BOOLEAN : process_quiz_upload(doc, db)
    \/ \E q \in 1..MaxQuizId : delete_quiz(q, TRUE)

SpecImport == Init /\ [][NextImport]_vars

----------------------------------------------------------------------------
(* The attempt table under every operation that writes the store *)

\* the documents of a re-import: the existing quiz "A" with no question
ReimportDocs ==
    {PathDoc("S", "T", "C", "L",
             <<[title |-> "A", description |-> "", time_limit |-> 1,
                questions |-> <<>>]>>)}

NextAttempts ==
    \/ \E u \in users, q \in DOMAIN quizzes, score \in Scores :
          QuizAttemptSubmitted(u.id, q, score, TRUE)
    \/ \E q \in questions : update_question(q.id, "q", <<"a", "b">>, 0)
    \/ \E q \in questions : delete_question(q.id)
    \/ \E doc \in ReimportDocs :
          /\ process_quiz_upload(doc, TRUE)
          /\ next_question_id' <= MaxQuestionId + 1
          /\ next_answer_id' <= MaxAnswerId + 1
    \/ \E q \in DOMAIN quizzes : toggle_quiz_visibility(q, TRUE)
    \/ \E u \in users, a \in BOOLEAN : update_user(u.id, None, <<a>>, TRUE)
    \/ \E u \in users : delete_user(u.id, TRUE)
    \/ \E q \in DOMAIN quizzes : delete_quiz(q, TRUE)

SpecAttempts == Init /\ [][NextAttempts]_vars

----------------------------------------------------------------------------
(* The quiz flow with the clock and the admin changing the time limits *)

\* the time limits the admin sets, in minutes
TimeLimits == {1, 2}

\* a re-import of the existing quiz "B" that names no time_limit
ReimportNoLimit ==
    PathDoc("S", "T", "C", "L", <<[title |-> "B", questions |-> <<>>]>>)

NextDeadline ==
    \/ ChooseLevel
    \/ \E q \in DOMAIN quizzes : OpenQuiz(q)
    \/ ClickStart
    \/ \E o \in 0..1 : SelectAnswer(o)
    \/ ClickNext
    \/ ClickSubmit
    \/ Rerun
    \/ Tick
    \/ \E q \in 1..MaxQuizId, t \in TimeLimits, db \in BOOLEAN :
          update_quiz_metadata(q, IF q \in DOMAIN quizzes THEN quizzes[q].title
                                  ELSE "", "", t, db)
    \/ process_quiz_upload(ReimportNoLimit, TRUE)

SpecDeadline == Init /\ [][NextDeadline]_vars

----------------------------------------------------------------------------
(* The browser session across logout, login and the admin's sidebar *)

NextSwitch ==
    \/ ChooseLevel
    \/ \E q \in DOMAIN quizzes : OpenQuiz(q)
    \/ ClickStart
    \/ \E o \in 0..1 : SelectAnswer(o)
    \/ ClickNext
    \/ ClickSubmit
    \/ Rerun
    \/ BrowseSubjects
    \/ ClickAdmin
    \/ ClickStudentView
    \/ ClickLogout
    \/ \E username \in Usernames, password \in Passwords : Login(username, password)

SpecSwitch == Init /\ [][NextSwitch]_vars

----------------------------------------------------------------------------
(* Users being deleted in two database sessions at a time *)

NextDeleting ==
    \/ \E u \in users, a \in BOOLEAN : update_user(u.id, None, <<a>>, TRUE)
    \/ \E s \in DbSessions, id \in 1..MaxUserId : delete_user_Query(s, id)
    \/ \E s \in DbSessions : delete_user_CountAdmins(s)
    \/ \E s \in DbSessions, db \in BOOLEAN : delete_user_Commit(s, db)

SpecDeleting == Init /\ [][NextDeleting]_vars

----------------------------------------------------------------------------
(* Quizzes with questions whose options share a text *)

\* an option list the Add Question form accepts: its options are non-empty,
\* and nothing compares them with each other
SameTextOptions == <<"x", "x">>

NextSameText ==
    \/ ChooseLevel
    \/ \E q \in DOMAIN quizzes : OpenQuiz(q)
    \/ ClickStart
    \/ \E o \in 0..1 : SelectAnswer(o)
    \/ ClickPrevious
    \/ ClickNext
    \/ ClickSubmit
    \/ Rerun
    \/ \E q \in DOMAIN quizzes, t \in QuestionTexts, c \in 0..1 :
          add_question_to_quiz(q, t, SameTextOptions, c)

SpecSameText == Init /\ [][NextSameText]_vars

----------------------------------------------------------------------------
(* A question being updated while the quizzes are read *)

NextUpdate ==
    \/ \E s \in DbSessions, q \in 1..MaxQuestionId, o \in OptionLists,
          c \in CorrectIndexes : update_question_Query(s, q, "q2", o, c)
    \/ \E s \in DbSessions : update_question_DeleteAnswers(s)
    \/ \E s \in DbSessions, db \in BOOLEAN : update_question_Commit(s, db)
    \/ \E s \in DbSessions, quiz_id \in 1..MaxQuizId : get_quiz_by_id_Read(s, quiz_id)

SpecUpdate == Init /\ [][NextUpdate]_vars

----------------------------------------------------------------------------
(* Properties of the quiz session (C1 - C8), stated over Spec *)

\* a quiz session is in progress: started and not yet completed
InProgress ==
    /\ QuizSessionKeys \cup {"current_quiz_id"} \subseteq DOMAIN session_state
    /\ session_state["quiz_started"]

\* the take_quiz page is the page the next run of the script renders
OnQuizPage == session_state["page"] = "take_quiz"

Snapshot == session_state["quiz_questions"]
Recorded == session_state["user_answers"]
History == [no |-> session_no, log |-> session_log, by |-> session_by]

\* the position, in id-ascending order, of the answer flagged is_correct
\* (the first one when several are), 0 when none is flagged
FlaggedPosition(question) ==
    LET flagged == {a \in question.answers : a.is_correct}
    IN IF flagged = {} THEN 0
       ELSE LET first == CHOOSE a \in flagged : \A b \in flagged : a.id <= b.id
            IN Cardinality({b \in question.answers : b.id < first.id})

\* the positions of qs whose recorded answer is the flagged position
Matches(qs, ua) ==
    {i \in 1..Len(qs) : (i - 1) \in DOMAIN ua /\ ua[i - 1] = FlaggedPosition(qs[i])}

\* score, total and result records are those the claim C1 gives for the
\* snapshot qs and the recorded answers ua
ScoredAsClaimed(qs, ua, score, total_questions, results) ==
    /\ total_questions = Len(qs)
    /\ Len(results) = Len(qs)
    /\ score = Cardinality(Matches(qs, ua))
    /\ \A i \in 1..Len(qs) :
          /\ results[i].question_id = qs[i].id
          /\ results[i].correct_answer = FlaggedPosition(qs[i])
          /\ results[i].user_answer =
                (IF (i - 1) \in DOMAIN ua THEN ua[i - 1] ELSE Unanswered)
          /\ results[i].is_correct = (i \in Matches(qs, ua))
          /\ ((i - 1) \notin DOMAIN ua => ~results[i].is_correct)

\* an outcome of the script is a completed session showing its result
Completed(o) ==
    /\ o.view.screen = "results"
    /\ QuizSessionKeys \cap DOMAIN o.ss = {}

\* the outcome's new attempt is stored with the claimed score and records
AttemptScoredAsClaimed(o, qs, ua) ==
    /\ Cardinality(o.attempts \ attempts) = 1
    /\ \A a \in o.attempts \ attempts :
          ScoredAsClaimed(qs, ua, a.score, a.total_questions, a.results)
    /\ o.view.score = Cardinality(Matches(qs, ua))
    /\ o.view.total = Len(qs)

\* submit_quiz_results applied to the session in progress
SubmitNow(db) ==
    submit_quiz_results(session_state, session_state["current_quiz_id"], History,
                        {}, db)

\* the run of the script for a widget event on the session in progress
RunNow(kind, arg) == Script(session_state, Click(kind, arg, TRUE), History)

\* C1: for every session snapshot of N questions and every map of recorded
\* answers, submit_quiz_results yields total_questions = N, one result
\* record per question in snapshot order and score = the number of positions
\* whose recorded answer is the flagged position; an unanswered position is
\* stored as -1 and never counts as correct.
C1_SubmitScoresSnapshot ==
    InProgress =>
        /\ Completed(SubmitNow(TRUE))
        /\ AttemptScoredAsClaimed(SubmitNow(TRUE), Snapshot, Recorded)

\* C1, for snapshots of at least one question: the scoring is as claimed.
C1_ScoresNonEmptySnapshot ==
    (InProgress /\ Len(Snapshot) >= 1) =>
        /\ Completed(SubmitNow(TRUE))
        /\ AttemptScoredAsClaimed(SubmitNow(TRUE), Snapshot, Recorded)

\* the seconds since the session in progress was started reach the time
\* limit of the quiz the page is rendered for
LimitReached(quiz_id) ==
    now - session_state["start_time"] >= quizzes[quiz_id].time_limit * SecondsPerMinute

TimeLimitReached == LimitReached(session_state["current_quiz_id"])

\* the outcome o of a run that renders the take_quiz page of quiz_id for the
\* session in progress is a forced submit iff the limit is reached, and then
\* stores what a manual submit of the same recorded answers stores
PollAsClaimed(quiz_id, o) ==
    /\ LimitReached(quiz_id) <=> Completed(o)
    /\ LimitReached(quiz_id) =>
          /\ o.attempts =
                submit_quiz_results(session_state, quiz_id, History, {}, TRUE).attempts
          /\ o.view.score =
                submit_quiz_results(session_state, quiz_id, History, {}, TRUE).view.score

\* the quizzes the quiz list of the session shows
ListedQuizzes ==
    IF "current_level_id" \in DOMAIN session_state
    THEN get_visible_quizzes_by_level(session_state["current_level_id"],
                                      session_state["is_admin"])
    ELSE {}

\* C2: at every poll (render of the take_quiz page) of a started session the
\* session is force-submitted iff the elapsed seconds are at least
\* time_limit*60, however many questions are answered, and the forced submit
\* stores the score and result records of a manual submit with the same
\* recorded answers.  The polls are the rerun of the quiz page and the render
\* that follows opening a quiz from the quiz list.
C2_ForcedSubmitIffTimeUp ==
    InProgress =>
        /\ OnQuizPage =>
              PollAsClaimed(session_state["current_quiz_id"], RunNow("none", 0))
        /\ session_state["page"] = "quizzes" =>
              \A q \in ListedQuizzes : PollAsClaimed(q, RunNow("open", q))

\* C2, for snapshots of at least one question.
C2_ForcedSubmitNonEmptySnapshot ==
    (InProgress /\ Len(Snapshot) >= 1) =>
        /\ OnQuizPage =>
              PollAsClaimed(session_state["current_quiz_id"], RunNow("none", 0))
        /\ session_state["page"] = "quizzes" =>
              \A q \in ListedQuizzes : PollAsClaimed(q, RunNow("open", q))

\* every question of the snapshot has a recorded answer
AllAnswered == \A i \in 0..(Len(Snapshot) - 1) : i \in DOMAIN Recorded

\* C3 as stated: from any in-progress state an explicit submit is permitted
\* with any number of answered questions; it completes the session and the
\* unanswered questions score as incorrect.
C3_SubmitAtAnyPoint ==
    (InProgress /\ OnQuizPage /\ OnQuestionScreen) =>
        /\ "submit" \in ShownQuestion.buttons
        /\ Completed(RunNow("submit", 0))
        /\ AttemptScoredAsClaimed(RunNow("submit", 0), Snapshot, Recorded)

\* C3 amended: an explicit submit is permitted exactly when every question of
\* the snapshot has a recorded answer; then it completes the session with the
\* score of the recorded answers; otherwise the Submit Quiz button is not on
\* the page, and a run for it completes the session only by the time-out.
C3_SubmitOnlyWhenAllAnswered ==
    (InProgress /\ OnQuizPage /\ OnQuestionScreen) =>
        /\ ("submit" \in ShownQuestion.buttons) <=> AllAnswered
        /\ AllAnswered =>
              /\ Completed(RunNow("submit", 0))
              /\ AttemptScoredAsClaimed(RunNow("submit", 0), Snapshot, Recorded)
        /\ ~AllAnswered =>
              \/ /\ RunNow("submit", 0).ss = session_state
                 /\ RunNow("submit", 0).view.screen = "question"
                 /\ RunNow("submit", 0).attempts = attempts
              \/ /\ TimeLimitReached
                 /\ "Time's up!" \in RunNow("submit", 0).view.msgs

\* C3: the Submit Quiz button is on the page of a session over two questions
C3_Witness ==
    /\ InProgress /\ OnQuizPage /\ OnQuestionScreen
    /\ Len(Snapshot) >= 2
    /\ "submit" \in ShownQuestion.buttons

\* C4: starting and completing a session on a quiz with zero questions yields
\* score = 0 and total_questions = 0 with percentage 0, without a failure, and
\* the attempt is recorded.
C4_ZeroQuestionQuiz ==
    (/\ QuizSessionKeys \cup {"current_quiz_id"} \subseteq DOMAIN session_state
     /\ ~session_state["quiz_started"]
     /\ OnQuizPage /\ view.screen = "ready"
     /\ Len(Snapshot) = 0) =>
        /\ Completed(RunNow("start", 0))
        /\ RunNow("start", 0).view.score = 0
        /\ RunNow("start", 0).view.total = 0
        /\ RunNow("start", 0).view.percentage = 0
        /\ \E a \in RunNow("start", 0).attempts \ attempts :
              a.score = 0 /\ a.total_questions = 0

\* the page reports that the attempt was not saved: it shows a message other
\* than the success and time-out messages
SaveFailureShown(v) == v.msgs \ {"Quiz Completed!", "Time's up!"} # {}

\* C5: when persisting the attempt fails at submit, the session still
\* completes and shows its in-memory score, no attempt is stored, and the
\* failure is surfaced as a warning instead of a plain success.
C5_SaveFailureSurfaced ==
    (InProgress /\ Len(Snapshot) >= 1) =>
        /\ Completed(SubmitNow(FALSE))
        /\ SubmitNow(FALSE).view.score = Cardinality(Matches(Snapshot, Recorded))
        /\ SubmitNow(FALSE).attempts = attempts
        /\ SaveFailureShown(SubmitNow(FALSE).view)

\* the sessions started so far that completed with working persistence
SavedSessions ==
    {k \in 1..session_no :
        \E j \in DOMAIN session_log[k] : session_log[k][j].persistence}

\* C6: every started session completes at most once; a completion with
\* working persistence creates exactly one attempt and no later poll or click
\* creates a second one for the session, whose quiz session state is gone
\* once it has completed.
C6_OneCompletionOneAttempt ==
    /\ \A k \in 1..session_no :
          /\ Len(session_log[k]) <= 1
          /\ \A j \in DOMAIN session_log[k] :
                /\ Cardinality(session_log[k][j].attempt_ids) =
                      (IF session_log[k][j].persistence THEN 1 ELSE 0)
                /\ session_log[k][j].attempt_ids \subseteq {a.id : a \in attempts}
    /\ Cardinality(attempts) = Cardinality(SavedSessions)
    /\ (session_no >= 1 /\ Len(session_log[session_no]) = 1) =>
          (QuizSessionKeys \subseteq DOMAIN session_state
              => ~session_state["quiz_started"])

\* C6: a session completed with its attempt saved, after a later poll
C6_Witness ==
    /\ session_no >= 1
    /\ Len(session_log[1]) = 1
    /\ session_log[1][1].persistence
    /\ Cardinality(attempts) = 1
    /\ view.screen = "ready"

\* the cursor after the run of the script for a navigation event, the cursor
\* before when the run completed the session
CursorAfter(kind, arg) ==
    IF "current_question" \in DOMAIN RunNow(kind, arg).ss
    THEN RunNow(kind, arg).ss["current_question"]
    ELSE session_state["current_question"]

\* C7: in a started session over N >= 1 questions 0 <= current_question < N;
\* Previous at 0 and Next at N-1 do not move the cursor, and a jump sets it
\* only to an index in 0..N-1.
C7_CursorInBounds ==
    (InProgress /\ Len(Snapshot) >= 1) =>
        /\ session_state["current_question"] \in 0..(Len(Snapshot) - 1)
        /\ OnQuizPage =>
              /\ session_state["current_question"] = 0
                    => CursorAfter("prev", 0) = 0
              /\ session_state["current_question"] = Len(Snapshot) - 1
                    => CursorAfter("next", 0) = Len(Snapshot) - 1
              /\ \A i \in -1..Len(Snapshot) :
                    /\ CursorAfter("jump", i) \in 0..(Len(Snapshot) - 1)
                    /\ CursorAfter("jump", i) \in {i, session_state["current_question"]}

\* C7: the cursor is on the last of two questions
C7_Witness ==
    /\ InProgress /\ OnQuizPage /\ OnQuestionScreen
    /\ Len(Snapshot) >= 2
    /\ session_state["current_question"] = Len(Snapshot) - 1

\* the session completes in this step
Completes ==
    /\ session_no' = session_no
    /\ session_no >= 1
    /\ Len(session_log'[session_no]) = Len(session_log[session_no]) + 1

\* the completion recorded by this step
LastCompletion == session_log'[session_no][Len(session_log'[session_no])]

\* the question screen shows the snapshot's question at the cursor, its
\* options in id order
ShowsSnapshotQuestion(ss, v) ==
    /\ ss["current_question"] \in 0..(Len(ss["quiz_questions"]) - 1)
    /\ LET q == PyItem(ss["quiz_questions"], ss["current_question"])
       IN
       /\ v.shown[1].question = q.question
       /\ Len(v.shown[1].options) = Cardinality(q.answers)
       /\ \A a \in q.answers :
             v.shown[1].options[Cardinality({b \in q.answers : b.id < a.id}) + 1]
                 = a.text
       /\ v.shown[1].targets = 0..(Len(ss["quiz_questions"]) - 1)

\* C8: once a session is started, no step (a content edit by
\* add_question_to_quiz, update_question, delete_question or a re-import, or
\* an event of the session) changes the session's question list, option order
\* or correct-option flags; the question screen presents the snapshot and the
\* score at submit is that of the snapshot and the recorded answers.
C8_SnapshotUnaffectedByEdits ==
    [][/\ (InProgress /\ InProgress') =>
              session_state'["quiz_questions"] = session_state["quiz_questions"]
       /\ (InProgress' /\ view'.screen = "question") =>
              ShowsSnapshotQuestion(session_state', view')
       /\ (InProgress /\ Completes) =>
              ScoredAsClaimed(Snapshot, Recorded, LastCompletion.score,
                              LastCompletion.total_questions,
                              LastCompletion.results)]_vars

\* C8: the question screen of a session in progress whose quiz has been
\* edited since the snapshot was taken
C8_Witness ==
    /\ InProgress /\ OnQuizPage /\ OnQuestionScreen
    /\ Len(Snapshot) >= 1
    /\ QuizQuestions(session_state["current_quiz_id"]) # Snapshot
    /\ Recorded # <<>>

----------------------------------------------------------------------------
(* Properties of user management (C9, C10), stated over SpecUsers *)

\* a call of the operation op returned in this step, the database answering
Returns(op) == ret' # ret /\ ret'.op = op /\ ret'.db

\* C9: delete_user on the only admin fails with the last-admin error and
\* leaves the user store unchanged; on an admin while another admin exists,
\* or on a non-admin, it succeeds and removes the user together with the
\* user's attempts; on an unknown id it fails with not-found.
C9_DeleteUser ==
    [][Returns("delete_user") =>
          LET target == {u \in users : u.id = ret'.id}
              admins == {u \in users : u.is_admin}
          IN IF target = {}
             THEN /\ ~ret'.ok /\ ret'.msg = "User not found"
                  /\ users' = users /\ attempts' = attempts
             ELSE IF admins = target
             THEN /\ ~ret'.ok /\ ret'.msg = "Cannot delete the last admin user"
                  /\ users' = users /\ attempts' = attempts
             ELSE /\ ret'.ok
                  /\ users' = users \ target
                  /\ attempts' = {a \in attempts : a.user_id # ret'.id}]_vars

\* C9: an admin was deleted while another admin exists
C9_Witness ==
    /\ ret.op = "delete_user" /\ ret.ok /\ ret.id = 1
    /\ \E u \in users : u.is_admin

\* C10: create_user with a username some user holds returns no user and the
\* duplicate-username error and leaves the user store unchanged; otherwise it
\* adds exactly one non-admin user; usernames stay pairwise distinct.
C10_CreateUser ==
    [][/\ Returns("create_user") =>
             IF \E u \in users : u.username = ret'.username
             THEN /\ ~ret'.ok /\ ret'.id = NoId
                  /\ ret'.msg = "Username already exists"
                  /\ users' = users
             ELSE /\ ret'.ok
                  /\ Cardinality(users' \ users) = 1
                  /\ users \subseteq users'
                  /\ \A u \in users' \ users :
                        /\ u.username = ret'.username
                        /\ u.id = ret'.id
                        /\ ~u.is_admin
                        /\ \A v \in users : v.id # u.id
       /\ \A u, v \in users' : u.username = v.username => u = v]_vars

\* C10: a duplicate username was refused after a user had been created
C10_Witness ==
    /\ ret.op = "create_user" /\ ~ret.ok
    /\ ret.msg = "Username already exists"
    /\ Cardinality(users) = 3

----------------------------------------------------------------------------
(* Properties of accounts (C11, C12), stated over SpecAccounts *)

\* the row of user with only the supplied fields of an update_user call set
WithSupplied(user, username, is_admin) ==
    [id |-> user.id,
     username |-> IF username = None THEN user.username ELSE username[1],
     password_hash |-> user.password_hash,
     is_admin |-> IF is_admin = None THEN user.is_admin ELSE is_admin[1]]

\* C11: update_user fails with not-found for an unknown id and with
\* duplicate-username when the new username belongs to a different user, and
\* then no field of any user changes (a supplied is_admin is not applied);
\* on success only the supplied fields of the target user change.
C11_UpdateUser ==
    [][Returns("update_user") =>
          LET target == {u \in users : u.id = ret'.id}
              holders == IF ret'.new_username = None THEN {}
                         ELSE {u \in users : /\ u.username = ret'.new_username[1]
                                              /\ u.id # ret'.id}
          IN IF target = {}
             THEN /\ ~ret'.ok /\ ret'.msg = "User not found"
                  /\ users' = users
             ELSE IF holders # {}
             THEN /\ ~ret'.ok /\ ret'.msg = "Username already exists"
                  /\ users' = users
             ELSE /\ ret'.ok
                  /\ users' = (users \ target) \cup
                        {WithSupplied(u, ret'.new_username, ret'.new_is_admin) :
                            u \in target}]_vars

\* C11: a renaming to another user's name that also supplied a different
\* is_admin was refused
C11_Witness ==
    /\ ret.op = "update_user" /\ ret.db /\ ~ret.ok
    /\ ret.msg = "Username already exists"
    /\ ret.new_is_admin # None
    /\ \E u \in users : u.id = ret.id /\ u.is_admin # ret.new_is_admin[1]

\* the users named username whose most recently set password has the digest
\* of password
HoldersOf(username, password) ==
    {u \in users : /\ u.username = username
                   /\ sha256(password_set[u.id]) = sha256(password)}

\* C12: after any sequence of create_user, reset_password and update_user,
\* authenticate_user(u, p) returns the user named u exactly when that user
\* exists and p has the digest of the password most recently set for it, and
\* none otherwise; reset_password on an unknown id fails with not-found and
\* changes nothing.
C12_Authenticate ==
    [][\* in the initial state, and after every step that writes a user
       \* row or sets a password
       /\ ret.op = "none" =>
             \A u \in Usernames, p \in NewPasswords :
                Authenticated(u, p) = HoldersOf(u, p)
       /\ (users' # users \/ password_set' # password_set) =>
             (\A u \in Usernames, p \in NewPasswords :
                Authenticated(u, p) = HoldersOf(u, p))'
       /\ Returns("authenticate_user") =>
             /\ ret'.ok <=> HoldersOf(ret'.username, ret'.password) # {}
             /\ ret'.ok => \E u \in HoldersOf(ret'.username, ret'.password) :
                               u.id = ret'.id
             /\ ~ret'.ok => ret'.id = NoId
             /\ users' = users
       /\ (Returns("reset_password") /\ \A u \in users : u.id # ret'.id) =>
             /\ ~ret'.ok /\ ret'.msg = "User not found"
             /\ users' = users]_vars

\* C12: a renamed user logged in with the password a reset had set
C12_Witness ==
    /\ ret.op = "authenticate_user" /\ ret.ok
    /\ ret.password = "pw2" /\ ret.username = "bob" /\ ret.id = 2

----------------------------------------------------------------------------
(* Properties of the catalogue (C13 - C15), stated over SpecCatalog *)

\* C13: a quiz with is_visible = false is left out of the listing of its
\* level for a non-admin caller, is in it for an admin caller, and is still
\* returned by get_quiz_by_id for a user who attempted it.
C13_HiddenQuiz ==
    \A q \in DOMAIN quizzes :
        ~quizzes[q].is_visible =>
            /\ q \notin get_visible_quizzes_by_level(quizzes[q].level_id, FALSE)
            /\ q \in get_visible_quizzes_by_level(quizzes[q].level_id, TRUE)
            /\ \A a \in attempts :
                  a.quiz_id = q =>
                      \E found \in get_quiz_by_id(q) :
                          found.id = q /\ found.quiz = quizzes[q]

\* C13: a quiz was hidden after a student attempted it, another stays listed
C13_Witness ==
    /\ \E q \in DOMAIN quizzes :
          /\ ~quizzes[q].is_visible
          /\ \E a \in attempts : a.quiz_id = q /\ a.user_id = 2
    /\ \E q \in DOMAIN quizzes : quizzes[q].is_visible

\* C14: after delete_quiz(q) succeeds no question, answer or attempt of q
\* remains and q is not found, while the rows of other quizzes are unchanged;
\* delete_quiz on an unknown id returns failure and changes nothing.
C14_DeleteQuiz ==
    [][Returns("delete_quiz") =>
          LET q == ret'.id
              of_q == {x \in questions : x.quiz_id = q}
          IN IF q \in DOMAIN quizzes
             THEN /\ ret'.ok
                  /\ q \notin DOMAIN quizzes'
                  /\ \A o \in DOMAIN quizzes \ {q} :
                        o \in DOMAIN quizzes' /\ quizzes'[o] = quizzes[o]
                  /\ DOMAIN quizzes' \subseteq DOMAIN quizzes
                  /\ questions' = questions \ of_q
                  /\ answers' = {a \in answers :
                                    \A x \in of_q : a.question_id # x.id}
                  /\ attempts' = {a \in attempts : a.quiz_id # q}
             ELSE /\ ~ret'.ok
                  /\ UNCHANGED <<quizzes, questions, answers, attempts>>]_vars

\* C14: a quiz with questions and an attempt was deleted while another quiz
\* has questions and an attempt
C14_Witness ==
    /\ ret.op = "delete_quiz" /\ ret.ok /\ ret.id = 1
    /\ \E x \in questions : x.quiz_id = 2
    /\ \E a \in attempts : a.quiz_id = 2

\* rows holds exactly the attempts of list, once each, latest date first
OrderedLatestFirst(list, rows) ==
    /\ {list[i] : i \in 1..Len(list)} = rows
    /\ Len(list) = Cardinality(rows)
    /\ \A i, j \in 1..Len(list) : i < j => list[i].date >= list[j].date

\* C15: get_user_quiz_attempts(user, quiz) returns exactly the stored attempts
\* with that user_id and quiz_id, ordered by date descending (element 0 is
\* the latest attempt); get_all_quiz_attempts returns every attempt ordered
\* by date descending.
C15_AttemptsLatestFirst ==
    /\ \A u \in 1..MaxUserId, q \in 1..MaxQuizId :
          /\ get_user_quiz_attempts(u, q) # {}
          /\ \A list \in get_user_quiz_attempts(u, q) :
                OrderedLatestFirst(list, {a \in attempts : /\ a.user_id = u
                                                           /\ a.quiz_id = q})
    /\ get_all_quiz_attempts # {}
    /\ \A list \in get_all_quiz_attempts : OrderedLatestFirst(list, attempts)

\* C15: a user has two attempts of one quiz, stored at different times
C15_Witness ==
    \E a, b \in attempts :
        /\ a.user_id = b.user_id /\ a.quiz_id = b.quiz_id
        /\ a.date < b.date
        /\ \A list \in get_user_quiz_attempts(a.user_id, a.quiz_id) :
              list[1] = b

----------------------------------------------------------------------------
(* Properties of bulk uploads (C16 - C18), stated over SpecImport *)

\* the level of a document of one path, and the names on its path
DocLevel(doc) == doc.subject.topics[1].classes[1].levels[1]

\* the ids of the quizzes the j-th quiz of the document's level names: those
\* with its title under the level, class, topic and subject of these names
Resolved(doc, j) ==
    {q \in DOMAIN quizzes :
        /\ quizzes[q].title = DocLevel(doc).quizzes[j].title
        /\ \E l \in levels, c \in classes, t \in topics, x \in subjects :
              /\ quizzes[q].level_id = l.id /\ l.name = DocLevel(doc).name
              /\ l.class_id = c.id /\ c.name = doc.subject.topics[1].classes[1].name
              /\ c.topic_id = t.id /\ t.name = doc.subject.topics[1].name
              /\ t.subject_id = x.id /\ x.name = doc.subject.name}

\* the whole path of the document exists, down to each of its quizzes
PathExists(doc) ==
    \A j \in 1..Len(DocLevel(doc).quizzes) : Resolved(doc, j) # {}

\* the rows of quiz q in the tables tx are exactly the document's questions:
\* text, explanation and options in order, the option at the answer index
\* flagged and no other
HoldsQuestionsOf(tx, q, quiz_data) ==
    LET rows == SortById({x \in tx.questions : x.quiz_id = q})
    IN /\ Len(rows) = Len(quiz_data.questions)
       /\ \A i \in 1..Len(rows) :
             LET opts == SortById({a \in tx.answers : a.question_id = rows[i].id})
             IN /\ rows[i].question = quiz_data.questions[i].question
                /\ rows[i].explanation = quiz_data.questions[i].explanation
                /\ Len(opts) = Len(quiz_data.questions[i].options)
                /\ \A k \in 1..Len(opts) :
                      /\ opts[k].text = quiz_data.questions[i].options[k]
                      /\ opts[k].is_correct <=>
                             (k - 1 = quiz_data.questions[i].answer)

\* a successful import of doc found quiz q for quiz_data: q is updated in
\* place and its questions are replaced
UpdatedInPlace(q, quiz_data) ==
    /\ q \in DOMAIN quizzes'
    /\ quizzes'[q] =
          [quizzes[q] EXCEPT
              !.description = IF "description" \in DOMAIN quiz_data
                              THEN quiz_data.description ELSE "",
              !.time_limit = IF "time_limit" \in DOMAIN quiz_data
                             THEN quiz_data.time_limit ELSE DefaultTimeLimit]
    /\ HoldsQuestionsOf(Tx', q, quiz_data)
    /\ \A x \in questions : x.quiz_id = q => \A y \in questions' : y.id # x.id
    /\ \A a \in answers :
          (\E x \in questions : x.quiz_id = q /\ a.question_id = x.id) =>
              \A b \in answers' : b.id # a.id

\* C16: importing a document whose subject/topic/class/level/quiz-title path
\* exists creates no second subject, topic, class, level or quiz: the
\* existing quiz keeps its id, gets the document's description and
\* time_limit, and its question set becomes exactly the document's questions
\* (all previous questions and answers removed); importing the same document
\* twice leaves the same content as importing it once.
C16_ReimportUpdatesInPlace ==
    [][\A doc \in UploadDocs :
          (process_quiz_upload(doc, TRUE) /\ upload_success(doc, TRUE)) =>
              /\ PathExists(doc) =>
                    /\ UNCHANGED <<subjects, topics, classes, levels>>
                    /\ DOMAIN quizzes' = DOMAIN quizzes
                    /\ \A j \in 1..Len(DocLevel(doc).quizzes) :
                          /\ Cardinality(Resolved(doc, j)) = 1
                          /\ \A q \in Resolved(doc, j) :
                                UpdatedInPlace(q, DocLevel(doc).quizzes[j])
                    /\ \A q \in DOMAIN quizzes :
                          (\A j \in 1..Len(DocLevel(doc).quizzes) :
                               q \notin Resolved(doc, j)) =>
                              /\ quizzes'[q] = quizzes[q]
                              /\ {x \in questions' : x.quiz_id = q}
                                     = {x \in questions : x.quiz_id = q}
              /\ get_subjects_with_full_hierarchy(ImportSubject(Tx', doc.subject))
                     = get_subjects_with_full_hierarchy(Tx')]_vars

\* C16: a quiz that had two questions was imported again and holds the one
\* question of the document, under its old id, next to the other quiz
C16_Witness ==
    /\ DOMAIN quizzes = {1, 2}
    /\ quizzes[1].description = "d"
    /\ Cardinality({x \in questions : x.quiz_id = 1}) = 1
    /\ \A x \in questions : x.id >= 4

\* the entries of docs are matched, in order, by entries of read
InOrder(read, docs, Match(_, _)) ==
    \E f \in [1..Len(docs) -> 1..Len(read)] :
        /\ \A i, j \in 1..Len(docs) : i < j => f[i] < f[j]
        /\ \A i \in 1..Len(docs) : Match(read[f[i]], docs[i])

\* the read-back question has the names and the answer index of the document's
QuestionMatch(read, question_data) ==
    /\ read.question = question_data.question
    /\ read.options = question_data.options
    /\ read.correct_index = question_data.answer

QuizMatch(read, quiz_data) ==
    /\ read.title = quiz_data.title
    /\ Len(read.questions) = Len(quiz_data.questions)
    /\ \A i \in 1..Len(read.questions) :
          QuestionMatch(read.questions[i], quiz_data.questions[i])

LevelMatch(read, level_data) ==
    read.name = level_data.name /\ InOrder(read.quizzes, level_data.quizzes, QuizMatch)

ClassMatch(read, class_data) ==
    read.name = class_data.name /\ InOrder(read.levels, class_data.levels, LevelMatch)

TopicMatch(read, topic_data) ==
    read.name = topic_data.name /\ InOrder(read.classes, topic_data.classes, ClassMatch)

SubjectMatch(read, subject_data) ==
    read.name = subject_data.name
        /\ InOrder(read.topics, subject_data.topics, TopicMatch)

\* C17: for every import document, process_quiz_upload followed by reading
\* the hierarchy back reproduces the same subject, topic, class, level, quiz,
\* question and option names in document order, and for every question the
\* read-back correct-option index (position of the flagged answer in id
\* order) equals the document's answer index.
C17_RoundTrip ==
    [][\A doc \in UploadDocs :
          (process_quiz_upload(doc, TRUE) /\ upload_success(doc, TRUE)) =>
              InOrder(get_subjects_with_full_hierarchy(Tx'), <<doc.subject>>,
                      SubjectMatch)]_vars

\* some question of the document's last quiz lacks its options or its answer
LastQuizMalformed(doc) ==
    \E question_data \in
          {DocLevel(doc).quizzes[Len(DocLevel(doc).quizzes)].questions[i] :
              i \in 1..Len(DocLevel(doc).quizzes[Len(DocLevel(doc).quizzes)].questions)} :
        \/ "options" \notin DOMAIN question_data
        \/ "answer" \notin DOMAIN question_data

\* C18: if processing any item of an import document fails (a question
\* lacking its options or its answer, deep in the last quiz),
\* process_quiz_upload reports failure and the content store is exactly as
\* before the import: nothing created, updated or deleted earlier in the same
\* import remains applied.
C18_AllOrNothing ==
    [][\A doc \in UploadDocs, db \in BOOLEAN :
          process_quiz_upload(doc, db) =>
              /\ (LastQuizMalformed(doc) \/ ~db) => ~upload_success(doc, db)
              /\ ~upload_success(doc, db) => UNCHANGED <<subjects, topics, classes, levels,
                                         quizzes, questions, answers>>]_vars

\* C18: an import drew two question ids and failed in its second quiz, after
\* the first quiz had been updated and its questions replaced; the store
\* holds the rows it held before
C18_Witness ==
    /\ next_question_id = 5
    /\ next_quiz_id = 3 /\ DOMAIN quizzes = {1, 2}
    /\ {x.id : x \in questions} = {1, 2}
    /\ quizzes[1].description = "" /\ quizzes[2].description = ""

----------------------------------------------------------------------------
(* Properties of stored attempts (C19, C20) *)

\* the attempts this step stores
Stored == attempts' \ attempts

\* C19, as claimed: for every stored attempt, total_questions equals the
\* number of questions the quiz had at the moment the attempt was submitted,
\* also when an admin added or deleted questions of that quiz between the
\* session's start and its submission.
C19_TotalIsQuizSizeAtSubmission ==
    [][\A a \in Stored : a.total_questions = Len(QuizQuestions(a.quiz_id))]_vars

\* C19, amended: for every attempt a quiz session stores, total_questions
\* equals the number of questions of the session's snapshot, as many as the
\* attempt has result records and at least its score.
C19_TotalIsSnapshotSize ==
    [][\A a \in Stored :
          /\ InProgress
          /\ a.quiz_id = session_state["current_quiz_id"]
          /\ a.total_questions = Len(Snapshot)
          /\ a.total_questions = Len(a.results)
          /\ a.score <= a.total_questions]_vars

\* C19: an attempt is stored whose session was submitted when the quiz had
\* another number of questions than the session's snapshot
C19_Witness ==
    \E i \in 1..session_no :
        \E j \in 1..Len(session_log[i]) :
            /\ session_log[i][j].quiz_size # session_log[i][j].total_questions
            /\ \E a \in attempts :
                  /\ a.id \in session_log[i][j].attempt_ids
                  /\ a.total_questions = session_log[i][j].total_questions

\* the row of attempt a after this step: unchanged, or gone
KeptAsStored(a) == a \in attempts' /\ \A b \in attempts' : b.id = a.id => b = a

\* attempt a disappears in this step, together with its quiz or its user
GoneWithQuizOrUser(a) ==
    /\ \A b \in attempts' : b.id # a.id
    /\ \/ a.quiz_id \in DOMAIN quizzes /\ a.quiz_id \notin DOMAIN quizzes'
       \/ UserById(a.user_id) # {} /\ \A u \in users' : u.id # a.user_id

\* C20: once stored, an attempt's user_id, quiz_id, score, total_questions,
\* time_taken, date and results are never changed by any later operation
\* (question edits, re-import, visibility toggle, user update, further
\* submissions); an attempt only ever disappears, and only through deletion
\* of its quiz or of its user.
C20_AttemptsImmutable ==
    [][\A a \in attempts : KeptAsStored(a) \/ GoneWithQuizOrUser(a)]_vars

\* C20: the first attempt is still stored after a further submission whose
\* attempt went with its quiz or user in the deletion that just succeeded,
\* its own quiz hidden, the quiz's questions edited since it was stored, and
\* its user's role changed
C20_Witness ==
    /\ next_attempt_id = 3
    /\ ret.op \in {"delete_quiz", "delete_user"} /\ ret.ok
    /\ \E a \in attempts :
          /\ a.id = 1
          /\ attempts = {a}
          /\ ~quizzes[a.quiz_id].is_visible
          /\ a.total_questions # Len(QuizQuestions(a.quiz_id))
          /\ \E u \in UserById(a.user_id) : u.id = 2 /\ u.is_admin

----------------------------------------------------------------------------
(* Properties of the question edits (C21, C22) *)

\* the answers of question_id, after this step, that are flagged correct
CorrectAnswersAfter(question_id) ==
    {a \in answers' : a.question_id = question_id /\ a.is_correct}

\* the questions this step inserted or gave new answers
Written ==
    {q \in questions' :
        \/ \A p \in questions : p.id # q.id
        \/ {a \in answers' : a.question_id = q.id} # AnswersOf(q.id)}

\* C21: after any sequence of process_quiz_upload, add_question_to_quiz and
\* update_question calls that report success, every stored question has
\* exactly one answer with is_correct = true (including when the supplied
\* correct index lies outside the supplied option list); stated on each
\* call: the questions it wrote have exactly one answer flagged correct.
C21_OneCorrectAnswer ==
    [][\A q \in Written : Cardinality(CorrectAnswersAfter(q.id)) = 1]_vars

\* the answers of question_id after this step
AnswersAfter(question_id) == {a \in answers' : a.question_id = question_id}

\* the rows are the options in their order, only position correct_index
\* flagged correct
ExactlyOptions(rows, options, correct_index) ==
    /\ Cardinality(rows) = Len(options)
    /\ \A i \in 1..Len(options) :
          /\ SortById(rows)[i].text = options[i]
          /\ SortById(rows)[i].is_correct <=> (i - 1 = correct_index)

\* update_question returns in this step from database session s
UpdateReturns(s) ==
    /\ db_sessions[s].op = "update_question" /\ db_sessions[s].pc = "deleted"
    /\ db_sessions'[s].pc = "returned"

\* update_question finds no question in this step in database session s
UpdateFindsNone(s) ==
    /\ Free(s) /\ db_sessions'[s] # db_sessions[s]
    /\ db_sessions'[s].op = "update_question" /\ db_sessions'[s].pc = "returned"

\* get_quiz_by_id runs in this step in database session s
ReadRuns(s) == \E quiz_id \in 1..MaxQuizId : get_quiz_by_id_Read(s, quiz_id)

\* the answers a read shows for question_id, were it among the questions
ShownAnswers(read, question_id) ==
    {q.answers : q \in {read.questions[i] : i \in 1..Len(read.questions)} \cap
                        {x \in {read.questions[i] : i \in 1..Len(read.questions)} :
                            x.id = question_id}}

\* C22: update_question(q, options, c) replaces q's answer set as one unit:
\* on success q's answers are exactly the given options in the given order
\* with only position c flagged correct and none of the old answers
\* remaining; on failure or for an unknown question the old text,
\* explanation and answers are all intact; no concurrent reader ever
\* observes q with its old answers deleted and its new answers not yet
\* inserted: a read during the update shows q with all its old answers.
C22_ReplacedAsOneUnit ==
    [][\A s \in DbSessions :
          /\ UpdateReturns(s) =>
                IF db_sessions'[s].ok
                THEN /\ ExactlyOptions(AnswersAfter(db_sessions[s].id),
                                       db_sessions[s].options,
                                       db_sessions[s].correct_index)
                     /\ AnswersAfter(db_sessions[s].id) \cap
                            db_sessions[s].old_answers = {}
                ELSE /\ {q \in questions' : q.id = db_sessions[s].id} =
                            db_sessions[s].old_question
                     /\ AnswersAfter(db_sessions[s].id) = db_sessions[s].old_answers
          /\ UpdateFindsNone(s) => UNCHANGED <<questions, answers>>
          /\ ReadRuns(s) =>
                \A w \in DbSessions : Writing(w) =>
                    \A read \in db_sessions'[s].read :
                        ShownAnswers(read, db_sessions[w].id)
                            \subseteq {db_sessions[w].old_answers}]_vars

\* C22: a question's answers were replaced by an update that a reader saw
\* between the delete and the commit, the read showing the old answers
C22_Witness ==
    \E w \in DbSessions, r \in DbSessions :
        /\ r # w
        /\ db_sessions[w].op = "update_question" /\ db_sessions[w].pc = "returned"
        /\ db_sessions[w].ok /\ db_sessions[w].correct_index = 0
        /\ AnswersOf(db_sessions[w].id) \cap db_sessions[w].old_answers = {}
        /\ AnswersOf(db_sessions[w].id) # {}
        /\ db_sessions[r].op = "get_quiz_by_id"
        /\ db_sessions[r].during[w] = "deleted"
        /\ \E read \in db_sessions[r].read :
              ShownAnswers(read, db_sessions[w].id) = {db_sessions[w].old_answers}

----------------------------------------------------------------------------
(* Properties of the browser session (C23 - C27) *)

\* the cursor of the quiz session
Cursor == session_state["current_question"]

\* the recorded answers of the positions other than i are left as they were
OthersKept(i) ==
    /\ DOMAIN session_state'["user_answers"] \ {i} = DOMAIN Recorded \ {i}
    /\ \A j \in DOMAIN Recorded \ {i} :
          session_state'["user_answers"][j] = Recorded[j]

\* C23: in a started session, recording a selection writes or overwrites
\* only the answer entry at the current cursor position and leaves the
\* entries of all other positions, the cursor and the start time unchanged;
\* Previous, Next and jump change only the cursor and leave every recorded
\* answer unchanged; a recorded answer is never removed before completion,
\* so the number of answered positions never decreases.
C23_AnswersKeptByPosition ==
    [][(InProgress /\ InProgress') =>
          /\ DOMAIN Recorded \subseteq DOMAIN session_state'["user_answers"]
          /\ session_state'["start_time"] = session_state["start_time"]
          \* a step that records a selection
          /\ session_state'["user_answers"] # Recorded =>
                /\ OthersKept(Cursor)
                /\ Cursor \in DOMAIN session_state'["user_answers"]
                /\ session_state'["current_question"] = Cursor
          \* a step that moves the cursor: Previous, Next or a jump
          /\ session_state'["current_question"] # Cursor =>
                /\ session_state'["user_answers"] = Recorded
                /\ [session_state' EXCEPT !["current_question"] = Cursor]
                       = session_state]_vars

\* C23: both positions of a two-question session are answered, differently,
\* and the cursor is back on the first
C23_Witness ==
    /\ InProgress /\ OnQuestionScreen
    /\ Len(Snapshot) = 2
    /\ DOMAIN Recorded = {0, 1}
    /\ Recorded[0] # Recorded[1]
    /\ Cursor = 0

\* C24: an admin changing a quiz's time_limit (update_quiz_metadata or
\* re-import) while a session on that quiz is in flight does not change that
\* session's deadline: the session is force-submitted exactly when elapsed
\* >= 60 * the time_limit the quiz had when the session started.  Stated
\* on each step that is not the session's own (the admin's, the clock's):
\* the time from which the session is force-submitted stays the same.
C24_DeadlineFixedAtStart ==
    [][(InProgress /\ session_state' = session_state) =>
          Deadline(session_state)' = Deadline(session_state)]_vars

\* the quizzes the questions of the session's list belong to
SnapshotQuizzes ==
    {q.quiz_id : q \in {x \in questions :
                           \E i \in 1..Len(Snapshot) : Snapshot[i].id = x.id}}

\* C25: every stored attempt is recorded against the quiz whose questions
\* were scored: for any sequence of opening a quiz page, going back to the
\* quiz list, opening another quiz, starting, answering and submitting, the
\* attempt's quiz_id is the id of the quiz that the session's question list
\* was loaded from.
C25_AttemptOfScoredQuiz ==
    [][\A a \in Stored : InProgress /\ SnapshotQuizzes \subseteq {a.quiz_id}]_vars

\* C26: whenever quiz_started is in st.session_state, current_question,
\* user_answers, start_time and quiz_questions are there too.
C26_QuizKeysTogether ==
    "quiz_started" \in DOMAIN session_state
        => QuizSessionKeys \subseteq DOMAIN session_state

\* C27: a quiz session belongs to the user who started it: the user logged
\* in while a session is in progress is the one who started it, and an
\* attempt is stored under the id of the user who started its session.
C27_AttemptOfStarter ==
    [][/\ (InProgress /\ session_state["authenticated"])'
           => get_current_user_id(session_state') = session_by'[session_no']
       /\ \A a \in Stored : a.user_id = session_by'[session_no']]_vars

----------------------------------------------------------------------------
(* Properties of the administrators (C28, C29) *)

\* C28: the store that starts with an admin keeps at least one user with
\* is_admin = TRUE through every call of the user operations.
C28_AnAdminRemains == \E u \in users : u.is_admin

\* two delete_user calls, one per admin, that each counted exactly these
\* two admins: each ran its count before the other's commit
TwoAdminsDeleted(s, t) ==
    /\ db_sessions[s].op = "delete_user" /\ db_sessions[s].pc = "returned"
    /\ db_sessions[t].op = "delete_user" /\ db_sessions[t].pc = "returned"
    /\ db_sessions[s].id # db_sessions[t].id
    /\ db_sessions[s].admins = {db_sessions[s].id, db_sessions[t].id}
    /\ db_sessions[t].admins = {db_sessions[s].id, db_sessions[t].id}

\* C29: of two concurrent delete_user calls on the only two admins, at
\* least one is rejected.
C29_OneDeleteRejected ==
    \A s \in DbSessions : \A t \in DbSessions \ {s} :
        TwoAdminsDeleted(s, t) => ~(db_sessions[s].ok /\ db_sessions[t].ok)

----------------------------------------------------------------------------
(* Properties of the recorded answer (C30) *)

\* C30: when an option is selected and the run reaches the radio (the
\* session is still in progress after it), the index recorded for the
\* question on the screen is the position of the option the user selected.
C30_RecordedIsSelected ==
    [][\A o \in 0..1 :
          (SelectAnswer(o) /\ InProgress') =>
              /\ Cursor \in DOMAIN session_state'["user_answers"]
              /\ session_state'["user_answers"][Cursor] = o]_vars

====
